---- MODULE Spec2Model ----
(***************************************************************************)
(* A model of tdom's output tree (nodes.py), its context registry          *)
(* (context.py) and its concurrent resolution engine (async_processor.py). *)
(*                                                                         *)
(* Strings are sequences of symbols: a symbol is one character or one      *)
(* indivisible run of characters ("div", "&lt;").  Two symbol sequences    *)
(* that are equal denote equal strings.                                    *)
(***************************************************************************)
EXTENDS Integers, Sequences, FiniteSets, TLC

VARIABLES
    \* ---- nodes.py: one node under construction and serialization
    nargs,      \* the constructor arguments (a node record, not yet validated)
    nst,        \* "new" | "built" | "rejected"
    strRes,     \* result of str(node): [done, ok, out]
    chunks,     \* chunks pulled so far from node.render_chunks()
    cst,        \* the generator: "fresh" | "running" | "exhausted" | "raised"
    \* ---- async_processor.py: one call of html_async on an event loop
    tasks,      \* task id -> the task: its coroutine's position, state and context
    ready,      \* the event loop's FIFO queue of tasks ready to run
    obs,        \* what each Context.get() made during the render returned
    calls,      \* the callables invoked during the render, and with what
    ncalls,     \* callable name -> how many times it was invoked
    cdefault,   \* the default of the render's Context slot, "none" if it has none
    finished,   \* the tasks that returned or raised, in the order they did
    callerCtx,  \* the context html_async was called in
    \* ---- context.py: one Context slot used in one call chain
    sdefault,   \* the slot's default, "none" if it was created without one
    cvar,       \* the value of the slot's ContextVar, Unset if it has none
    scopes,     \* the provide() scopes entered and not yet left: their tokens
    raising,    \* an exception is propagating out of the innermost scope
    got,        \* what the last Context.get() returned or raised
    prior,      \* per open scope, what was visible just before it was entered
    exited,     \* the last scope exit: what was visible before entry, and after
    provided,   \* the values given to the provide() calls whose scopes are open
    gotIn,      \* the open scopes' values when the last Context.get() was made
    \* ---- utils.py and the template cache: renders sharing one cache
    cache,      \* the cache's entries [key, tree], in insertion order
    renders,    \* render id -> [key, pc, tree]: a call that needs a parsed tree
    parsed,     \* how many times the parser has run
    \* ---- utils.py: one LastUpdatedOrderedDict
    lud,        \* its items [key, value], in iteration order
    assigned    \* the item assignments made on it [key, value], oldest first

nodeVars == <<nargs, nst, strRes, chunks, cst>>
engineVars == <<tasks, ready, obs, calls, ncalls, cdefault, finished, callerCtx>>

ctxVars == <<sdefault, cvar, scopes, raising, got, prior, exited, provided, gotIn>>

dictVars == <<lud, assigned>>
cacheVars == <<cache, renders, parsed, dictVars>>

vars == <<nodeVars, engineVars, ctxVars, cacheVars>>

\* ------------------------------------------------------------------------
\* Bounds
\* ------------------------------------------------------------------------
MaxNodes == 3       \* nodes in a tree handed to the serializer
MaxKids == 3        \* children of the root of a rendered template
MaxDepth == 3       \* provide() scopes nested in one another
MaxParts == 2       \* interpolations in one text ref
MaxAttrs == 2       \* attributes on one component
MaxRenders == 3     \* calls that share the template cache

\* a ContextVar that has no value in a context
Unset == "unset"

\* ------------------------------------------------------------------------
\* Small helpers on sequences
\* ------------------------------------------------------------------------
RECURSIVE Concat(_)
Concat(ss) == IF ss = <<>> THEN <<>> ELSE Head(ss) \o Concat(Tail(ss))

Range(s) == {s[i] : i \in 1..Len(s)}

\* ------------------------------------------------------------------------
\* nodes.py: the node records
\* ------------------------------------------------------------------------
VOID_ELEMENTS == {"area", "base", "br", "col", "embed", "hr", "img", "input",
                  "link", "meta", "param", "source", "track", "wbr"}

NoAttrs == <<>>

Text(s) ==
    [kind |-> "Text", text |-> s, safe |-> FALSE, tag |-> "",
     attrs |-> NoAttrs, children |-> <<>>]

\* Text(Markup(s)): text that is already safe markup
MarkupText(s) ==
    [kind |-> "Text", text |-> s, safe |-> TRUE, tag |-> "",
     attrs |-> NoAttrs, children |-> <<>>]

Comment(s) ==
    [kind |-> "Comment", text |-> s, safe |-> FALSE, tag |-> "",
     attrs |-> NoAttrs, children |-> <<>>]

DocumentType(s) ==
    [kind |-> "DocumentType", text |-> s, safe |-> FALSE, tag |-> "",
     attrs |-> NoAttrs, children |-> <<>>]

Fragment(ch) ==
    [kind |-> "Fragment", text |-> <<>>, safe |-> FALSE, tag |-> "",
     attrs |-> NoAttrs, children |-> ch]

\* the fields of an Element, before __post_init__ has checked them
Element(tag, attrs, ch) ==
    [kind |-> "Element", text |-> <<>>, safe |-> FALSE, tag |-> tag,
     attrs |-> attrs, children |-> ch]

is_void(n) == n.tag \in VOID_ELEMENTS

\* (mutant) only the tag is checked
Element_post_init_tag_only(n) ==
    IF n.tag = "" THEN "ValueError: Element tag cannot be empty." ELSE ""

\* Element.__post_init__: "" when the element is accepted, else the error
Element_post_init(n) ==
    IF n.tag = "" THEN "ValueError: Element tag cannot be empty."
    ELSE IF is_void(n) /\ n.children # <<>>
         THEN "ValueError: Void element cannot have children."
    ELSE ""

\* ------------------------------------------------------------------------
\* escaping.py: the four escaping primitives, symbol by symbol
\* ------------------------------------------------------------------------
escape_text_sym(c) ==
    CASE c = "<" -> "&lt;"
      [] c = ">" -> "&gt;"
      [] c = "&" -> "&amp;"
      [] c = "</script>" -> "&lt;/script&gt;"
      [] c = "</style>" -> "&lt;/style&gt;"
      [] c = "-->" -> "--&gt;"
      [] OTHER -> c

escape_html_text(t) ==
    IF t.safe THEN t.text
    ELSE [i \in 1..Len(t.text) |-> escape_text_sym(t.text[i])]

escape_html_comment(s) ==
    [i \in 1..Len(s) |-> IF s[i] = "-->" THEN "--&gt;" ELSE s[i]]

escape_html_script(s) ==
    [i \in 1..Len(s) |-> IF s[i] = "</script>" THEN "\\x3c/script>" ELSE s[i]]

escape_html_style(s) ==
    [i \in 1..Len(s) |-> IF s[i] = "</style>" THEN "\\3c/style>" ELSE s[i]]

\* ------------------------------------------------------------------------
\* nodes.py: serialization
\* ------------------------------------------------------------------------
\* one attribute is [name, has, value]: has = FALSE is the value None
format_attributes(attrs) ==
    Concat([i \in 1..Len(attrs) |->
        IF attrs[i].has
        THEN <<" ", attrs[i].name, "=\"">>
             \o escape_html_text(Text(attrs[i].value)) \o <<"\"">>
        ELSE <<" ", attrs[i].name>>])

Ok(out) == [ok |-> TRUE, out |-> out]
Err == [ok |-> FALSE, out |-> <<>>]

\* the results of a sequence of calls, joined; the first failure fails all
AllOk(rs) == \A i \in 1..Len(rs) : rs[i].ok
JoinResults(rs) ==
    IF AllOk(rs) THEN Ok(Concat([i \in 1..Len(rs) |-> rs[i].out])) ELSE Err

RECURSIVE Str(_)

\* (mutant) script and style bodies serialized like any other children
children_to_str_per_node(n) ==
    JoinResults([i \in 1..Len(n.children) |-> Str(n.children[i])])

\* Element._children_to_str
children_to_str(n) ==
    IF n.children = <<>> THEN Ok(<<>>)
    ELSE IF n.tag \in {"script", "style"}
    THEN IF \E i \in 1..Len(n.children) : n.children[i].kind # "Text"
         THEN Err
         ELSE LET raw == Concat([i \in 1..Len(n.children) |-> n.children[i].text])
              IN  IF n.tag = "script" THEN Ok(escape_html_script(raw))
                  ELSE Ok(escape_html_style(raw))
    ELSE JoinResults([i \in 1..Len(n.children) |-> Str(n.children[i])])

\* Element.__str__
Element_str(n) ==
    LET attrs_str == format_attributes(n.attrs) IN
    IF is_void(n) THEN Ok(<<"<", n.tag>> \o attrs_str \o <<" />">>)
    ELSE IF n.children = <<>>
    THEN Ok(<<"<", n.tag>> \o attrs_str \o <<">", "</", n.tag, ">">>)
    ELSE LET c == children_to_str(n) IN
         IF c.ok
         THEN Ok(<<"<", n.tag>> \o attrs_str \o <<">">> \o c.out
                 \o <<"</", n.tag, ">">>)
         ELSE Err

\* str(node), by node class
Str(n) ==
    CASE n.kind = "Text" -> Ok(escape_html_text(n))
      [] n.kind = "Comment" -> Ok(<<"<!--">> \o escape_html_comment(n.text) \o <<"-->">>)
      [] n.kind = "DocumentType" -> Ok(<<"<!DOCTYPE ">> \o n.text \o <<">">>)
      [] n.kind = "Fragment" ->
            JoinResults([i \in 1..Len(n.children) |-> Str(n.children[i])])
      [] n.kind = "Element" -> Element_str(n)

\* A generator's whole run: the chunks it yields, and whether it then raised
Gen(cs, raised) == [chunks |-> cs, raised |-> raised]

\* "yield from" over a sequence of generators: stops at the first that raises
RECURSIVE YieldFromAll(_)
YieldFromAll(gs) ==
    IF gs = <<>> THEN Gen(<<>>, FALSE)
    ELSE IF Head(gs).raised THEN Head(gs)
    ELSE LET rest == YieldFromAll(Tail(gs)) IN
         Gen(Head(gs).chunks \o rest.chunks, rest.raised)

\* "yield str(self)" of Text, Comment, DocumentType
YieldStr(n) ==
    LET s == Str(n) IN IF s.ok THEN Gen(<<s.out>>, FALSE) ELSE Gen(<<>>, TRUE)

RECURSIVE render_chunks(_)

\* (mutant) an element without children yields its open tag only
Element_render_chunks_no_close(n) ==
    LET attrs_str == format_attributes(n.attrs)
        open == <<"<", n.tag>> \o attrs_str \o <<">">>
        close == <<"</", n.tag, ">">>
    IN
    IF is_void(n) THEN Gen(<< <<"<", n.tag>> \o attrs_str \o <<" />">> >>, FALSE)
    ELSE IF n.children = <<>> THEN Gen(<<open>>, FALSE)
    ELSE IF n.tag \in {"script", "style"}
    THEN LET c == children_to_str(n) IN
         IF c.ok THEN Gen(<<open, c.out, close>>, FALSE)
         ELSE Gen(<<open>>, TRUE)
    ELSE LET body == YieldFromAll([i \in 1..Len(n.children) |->
                                      render_chunks(n.children[i])])
         IN  IF body.raised THEN Gen(<<open>> \o body.chunks, TRUE)
             ELSE Gen(<<open>> \o body.chunks \o <<close>>, FALSE)

\* Element.render_chunks
Element_render_chunks(n) ==
    LET attrs_str == format_attributes(n.attrs)
        open == <<"<", n.tag>> \o attrs_str \o <<">">>
        close == <<"</", n.tag, ">">>
    IN
    IF is_void(n) THEN Gen(<< <<"<", n.tag>> \o attrs_str \o <<" />">> >>, FALSE)
    ELSE IF n.children = <<>> THEN Gen(<<open, close>>, FALSE)
    ELSE IF n.tag \in {"script", "style"}
    THEN LET c == children_to_str(n) IN
         IF c.ok THEN Gen(<<open, c.out, close>>, FALSE)
         ELSE Gen(<<open>>, TRUE)
    ELSE LET body == YieldFromAll([i \in 1..Len(n.children) |->
                                      render_chunks(n.children[i])])
         IN  IF body.raised THEN Gen(<<open>> \o body.chunks, TRUE)
             ELSE Gen(<<open>> \o body.chunks \o <<close>>, FALSE)

\* Node.render_chunks, the base class's: the whole node as one chunk
Node_render_chunks(n) == YieldStr(n)

\* node.render_chunks(), by node class
render_chunks(n) ==
    CASE n.kind \in {"Text", "Comment", "DocumentType"} -> YieldStr(n)
      [] n.kind = "Fragment" ->
            YieldFromAll([i \in 1..Len(n.children) |-> render_chunks(n.children[i])])
      [] n.kind = "Element" -> Element_render_chunks(n)

\* ------------------------------------------------------------------------
\* The trees handed to the serializer: every tree of at most MaxNodes nodes
\* over a small vocabulary
\* ------------------------------------------------------------------------
SomeAttrs == << [name |-> "id", has |-> TRUE, value |-> <<"<">>],
                [name |-> "hidden", has |-> FALSE, value |-> <<>>] >>

Leaves == {Text(<<"<">>), Text(<<"</script>">>), MarkupText(<<"<">>),
           Comment(<<"-->">>), DocumentType(<<"html">>)}

\* a container with its children still to be filled in
Shells == {Fragment(<<>>), Element("div", SomeAttrs, <<>>),
           Element("br", SomeAttrs, <<>>), Element("script", NoAttrs, <<>>),
           Element("style", NoAttrs, <<>>)}

Constructible(n) == n.kind # "Element" \/ Element_post_init(n) = ""

RECURSIVE TreesOfSize(_), Forests(_)

\* the sequences of constructed trees with n nodes in all
Forests(n) ==
    IF n = 0 THEN {<<>>}
    ELSE UNION {{<<t>> \o f : t \in TreesOfSize(k), f \in Forests(n - k)} : k \in 1..n}

\* constructor arguments with n nodes in all, children already constructed
ArgsOfSize(n) ==
    (IF n = 1 THEN Leaves ELSE {})
    \cup {[s EXCEPT !.children = f] : s \in Shells, f \in Forests(n - 1)}
    \cup {Element("", NoAttrs, f) : f \in Forests(n - 1)}

TreesOfSize(n) == {a \in ArgsOfSize(n) : Constructible(a)}

\* an element of each void tag at the root, with and without children
VoidArgs ==
    {Element(tag, attrs, f) :
        tag \in VOID_ELEMENTS, attrs \in {NoAttrs, SomeAttrs},
        f \in {<<>>, <<Text(<<"<">>)>>, <<Element("br", NoAttrs, <<>>)>>}}

\* the nested list and the two sibling spans of the streaming tests
NestedArgs ==
    {Element("ul", NoAttrs, <<Element("li", NoAttrs, <<Text(<<"A">>)>>),
                              Element("li", NoAttrs, <<Text(<<"B">>)>>)>>),
     Fragment(<<Element("span", NoAttrs, <<Text(<<"1">>)>>),
                Element("span", NoAttrs, <<Text(<<"2">>)>>)>>)}

ArgsUpTo(m) == VoidArgs \cup NestedArgs \cup UNION {ArgsOfSize(n) : n \in 1..m}

\* ------------------------------------------------------------------------
\* nodes.py as a state machine: construct a node, then serialize it both ways
\* ------------------------------------------------------------------------
NoStr == [done |-> FALSE, ok |-> FALSE, out |-> <<>>]

NodeIdle ==
    /\ nargs = Text(<<>>)
    /\ nst = "idle"
    /\ strRes = NoStr
    /\ chunks = <<>>
    /\ cst = "fresh"

EngineIdle ==
    /\ tasks = <<>>
    /\ ready = <<>>
    /\ obs = {}
    /\ calls = {}
    /\ ncalls = <<>>
    /\ cdefault = "none"
    /\ finished = <<>>
    /\ callerCtx = Unset

CtxIdle ==
    /\ sdefault = "none"
    /\ cvar = Unset
    /\ scopes = <<>>
    /\ raising = FALSE
    /\ got = ""
    /\ prior = <<>>
    /\ exited = <<>>
    /\ provided = <<>>
    /\ gotIn = <<>>

DictIdle ==
    /\ lud = <<>>
    /\ assigned = <<>>

CacheIdle ==
    /\ cache = <<>>
    /\ renders = <<>>
    /\ parsed = 0
    /\ DictIdle

NodeInit ==
    /\ nargs \in ArgsUpTo(MaxNodes)
    /\ nst = "new"
    /\ strRes = NoStr
    /\ chunks = <<>>
    /\ cst = "fresh"
    /\ EngineIdle
    /\ CtxIdle
    /\ CacheIdle

\* Element(...) / Fragment(...) / Text(...): the dataclass constructor
Construct ==
    /\ nst = "new"
    /\ nst' = IF Constructible(nargs) THEN "built" ELSE "rejected"
    /\ UNCHANGED <<nargs, strRes, chunks, cst, engineVars, ctxVars, cacheVars>>

\* str(node)
StrNode ==
    /\ nst = "built"
    /\ ~strRes.done
    /\ strRes' = [done |-> TRUE, ok |-> Str(nargs).ok, out |-> Str(nargs).out]
    /\ UNCHANGED <<nargs, nst, chunks, cst, engineVars, ctxVars, cacheVars>>

\* next(node.render_chunks()): one pull on the generator
NextChunk ==
    /\ nst = "built"
    /\ cst \in {"fresh", "running"}
    /\ LET g == render_chunks(nargs) IN
       IF Len(chunks) < Len(g.chunks)
       THEN /\ chunks' = Append(chunks, g.chunks[Len(chunks) + 1])
            /\ cst' = "running"
       ELSE /\ chunks' = chunks
            /\ cst' = IF g.raised THEN "raised" ELSE "exhausted"
    /\ UNCHANGED <<nargs, nst, strRes, engineVars, ctxVars, cacheVars>>

NodeNext == Construct \/ StrNode \/ NextChunk

SpecNodes == NodeInit /\ [][NodeNext]_vars

\* ------------------------------------------------------------------------
\* C2
\* ------------------------------------------------------------------------
\* a tree str() accepts: no script/style element has a non-Text child
RECURSIVE ValidTree(_)
ValidTree(n) ==
    /\ n.kind = "Element" /\ n.tag \in {"script", "style"}
         => \A i \in 1..Len(n.children) : n.children[i].kind = "Text"
    /\ \A i \in 1..Len(n.children) : ValidTree(n.children[i])

\* C2: for every valid node tree, render_chunks runs to exhaustion without
\* raising, str(node) succeeds, and the chunks joined in order are exactly
\* str(node).
ChunksJoinToStr ==
    (nst = "built" /\ ValidTree(nargs)) =>
        /\ cst # "raised"
        /\ strRes.done => strRes.ok
        /\ (strRes.done /\ cst = "exhausted") => Concat(chunks) = strRes.out

\* a nested element with attributes was serialized both ways
ChunksJoinToStrWitness ==
    /\ nst = "built" /\ ValidTree(nargs)
    /\ strRes.done /\ cst = "exhausted"
    /\ nargs.kind = "Element" /\ nargs.attrs # NoAttrs
    /\ Len(nargs.children) = 1
    /\ nargs.children[1].kind = "Element"
    /\ nargs.children[1].tag = "script"
    /\ nargs.children[1].children # <<>>
    /\ Len(chunks) = 5

\* ------------------------------------------------------------------------
\* context.py: the ContextVar behind a Context slot.  A context is the value
\* the variable has in it, "unset" when it has none; a token is the value
\* the variable had before the set that made the token.
\* ------------------------------------------------------------------------
\* ContextVar.set(value): the new context and the token
ContextVar_set(ctx, value) == [ctx |-> value, token |-> ctx]

\* ContextVar.reset(token): the context after the reset
ContextVar_reset(ctx, token) == token

\* ContextVar.get(): the value, the default, or LookupError
ContextVar_get(ctx, default) ==
    IF ctx # Unset THEN ctx
    ELSE IF default # "none" THEN default
    ELSE "LookupError"

\* ------------------------------------------------------------------------
\* Runtime values (what an interpolation or a callable can produce) and
\* placeholder trees (the parser's output, each slot already looked up in
\* the template's interpolations)
\* ------------------------------------------------------------------------
V0 == [vk |-> "obj", name |-> "", s |-> <<>>, h |-> <<>>, items |-> <<>>,
       node |-> <<>>, tpl |-> <<>>, res |-> <<>>,
       iter |-> FALSE, html |-> FALSE, call |-> FALSE,
       reqpos |-> FALSE, named |-> {}, kw |-> FALSE, required |-> {},
       async |-> FALSE, delay |-> 0, body |-> "ret", err |-> "",
       pv |-> "", expect |-> ""]

T0 == [tk |-> "", parts |-> <<>>, text |-> <<>>, tag |-> "", attrs |-> <<>>,
       start |-> <<>>, end |-> <<>>, children |-> <<>>]

\* one part of a text ref: a literal string or an interpolation
Lit(s) == [lit |-> TRUE, s |-> s, v |-> <<>>]
Interp(v) == [lit |-> FALSE, s |-> <<>>, v |-> <<v>>]

TText(parts) == [T0 EXCEPT !.tk = "TText", !.parts = parts]
TComment(parts) == [T0 EXCEPT !.tk = "TComment", !.parts = parts]
TDocumentType(text) == [T0 EXCEPT !.tk = "TDocumentType", !.text = text]
TFragment(ch) == [T0 EXCEPT !.tk = "TFragment", !.children = ch]
TElement(tag, attrs, ch) ==
    [T0 EXCEPT !.tk = "TElement", !.tag = tag, !.attrs = attrs, !.children = ch]
TComponent(start, end, attrs, ch) ==
    [T0 EXCEPT !.tk = "TComponent", !.start = <<start>>, !.end = end,
               !.attrs = attrs, !.children = ch]

\* TemplateRef.is_literal
is_literal(parts) == Len(parts) = 1 /\ parts[1].lit

\* processor.py, format_interpolation / format_template: the plain text of
\* a ref's parts (a value formats as its str())
format_template(parts) ==
    Concat([i \in 1..Len(parts) |->
               IF parts[i].lit THEN parts[i].s ELSE parts[i].v[1].s])

\* processor.py, flatten_nodes: every Fragment among the nodes is replaced
\* by its children, transitively
RECURSIVE flatten_nodes(_)
flatten_nodes(ns) ==
    Concat([i \in 1..Len(ns) |->
               IF ns[i].kind = "Fragment" THEN flatten_nodes(ns[i].children)
               ELSE <<ns[i]>>])

\* an attribute whose value is an interpolation, as the parser leaves it
TAttr(name, v) == [name |-> name, has |-> TRUE, value |-> <<>>, v |-> <<v>>]

\* processor.py, resolve_attrs / resolve_t_attrs: an interpolated value is
\* looked up and formatted, a static attribute stays as parsed
resolve_attr(a) ==
    IF "v" \in DOMAIN a THEN [name |-> a.name, has |-> TRUE, value |-> a.v[1].s] ELSE a
resolve_attrs(attrs) == [i \in 1..Len(attrs) |-> resolve_attr(attrs[i])]
resolve_t_attrs(attrs) == [i \in 1..Len(attrs) |-> resolve_attr(attrs[i])]

\* processor.py, kebab_to_snake
kebab_to_snake(name) ==
    CASE name = "data-id" -> "data_id"
      [] name = "user-name" -> "user_name"
      [] OTHER -> name

\* a value wrapping a node, a string, a sequence of values
NodeValue(n) == [V0 EXCEPT !.vk = "node", !.node = <<n>>, !.html = TRUE]
StrValue(s) == [V0 EXCEPT !.vk = "str", !.s = s, !.iter = TRUE]
IterValue(items) == [V0 EXCEPT !.vk = "obj", !.iter = TRUE, !.items = items,
                               !.s = <<"[...]">>]

\* ------------------------------------------------------------------------
\* async_processor.py: one task's coroutine, run from where it stands to its
\* next suspension.  A position is an instruction (op) and the frames (k)
\* that wait for its result.
\* ------------------------------------------------------------------------
OP0 == [i |-> "", t |-> <<>>, v |-> <<>>, n |-> <<>>, ns |-> <<>>,
        e |-> [msg |-> "", names |-> {}, origin |-> <<>>], then |-> ""]
F0 == [f |-> "", tag |-> "", attrs |-> <<>>, start |-> <<>>, end |-> <<>>,
       parts |-> <<>>, tok |-> ""]

OpResolve(t) == [OP0 EXCEPT !.i = "resolve", !.t = <<t>>]
OpNorm(v) == [OP0 EXCEPT !.i = "norm", !.v = <<v>>]
OpMatch(v) == [OP0 EXCEPT !.i = "match", !.v = <<v>>]
OpBody(c, kids, then) ==
    [OP0 EXCEPT !.i = "body", !.v = <<c>>, !.ns = kids, !.then = then]
OpGathered(ns) == [OP0 EXCEPT !.i = "gathered", !.ns = ns]
OpRet(n) == [OP0 EXCEPT !.i = "ret", !.n = <<n>>]
\* an exception object: its message and the task whose code raised it
\* (filled in when the task ends)
NoErr == [msg |-> "", names |-> {}, origin |-> <<>>]
Exc(msg) == [msg |-> msg, names |-> {}, origin |-> <<>>]
\* an exception whose message lists names
ExcNaming(msg, names) == [msg |-> msg, names |-> names, origin |-> <<>>]
OpRaise(msg) == [OP0 EXCEPT !.i = "raise", !.e = Exc(msg)]
\* an exception object raised again as it is
OpReraise(e) == [OP0 EXCEPT !.i = "raise", !.e = e]

\* what a run of a coroutine leaves in its log: a Context.get() and what it
\* returned, a call of a callable and its keyword arguments
LogGet(c, saw) ==
    [ev |-> "get", who |-> c.name, saw |-> saw, expect |-> c.expect,
     kwargs |-> {}, kids |-> <<>>]
LogCall(c, kwargs, kids) ==
    [ev |-> "call", who |-> c.name, saw |-> "", expect |-> "",
     kwargs |-> kwargs, kids |-> kids]
ReadsOf(log) ==
    {[who |-> o.who, saw |-> o.saw, expect |-> o.expect] : o \in {x \in log : x.ev = "get"}}
CallsOf(log) ==
    {[who |-> o.who, kwargs |-> o.kwargs, kids |-> o.kids] : o \in {x \in log : x.ev = "call"}}
\* the invocation counts after a run that left log
Counted(n, log) ==
    LET made == {x \in log : x.ev = "call"} IN
    [w \in DOMAIN n \cup {x.who : x \in made} |->
        (IF w \in DOMAIN n THEN n[w] ELSE 0) + Cardinality({x \in made : x.who = w})]

\* where a run of a coroutine ends
R0 == [st |-> "", op |-> OP0, k |-> <<>>, ctx |-> Unset, log |-> {},
       spawn |-> <<>>, res |-> <<>>, err |-> NoErr]
Done(n, ctx, log) == [R0 EXCEPT !.st = "done", !.res = <<n>>, !.ctx = ctx, !.log = log]
Failed(e, ctx, log) == [R0 EXCEPT !.st = "failed", !.err = e, !.ctx = ctx, !.log = log]
Sleeping(op, k, ctx, log) ==
    [R0 EXCEPT !.st = "sleeping", !.op = op, !.k = k, !.ctx = ctx, !.log = log]
Gathering(spawn, k, ctx, log) ==
    [R0 EXCEPT !.st = "gather", !.spawn = spawn, !.k = k, !.ctx = ctx, !.log = log]

\* what "c()" raises when c has parameters without defaults
ArityError == "TypeError: missing required argument"

\* (mutant) the callable case tried before the iterable case
match_case_callable_first(v) ==
    IF v.vk = "str" THEN "str"
    ELSE IF v.vk = "node" THEN "Node"
    ELSE IF v.vk = "template" THEN "Template"
    ELSE IF v.vk \in {"false", "none"} THEN "FalseNone"
    ELSE IF v.call THEN "callable"
    ELSE IF v.iter THEN "Iterable"
    ELSE IF v.html THEN "HasHTMLDunder"
    ELSE "fallback"

\* _node_from_value_async, the match statement: the case a value takes
match_case(v) ==
    IF v.vk = "str" THEN "str"
    ELSE IF v.vk = "node" THEN "Node"
    ELSE IF v.vk = "template" THEN "Template"
    ELSE IF v.vk \in {"false", "none"} THEN "FalseNone"
    ELSE IF v.iter THEN "Iterable"
    ELSE IF v.html THEN "HasHTMLDunder"
    ELSE IF v.call THEN "callable"
    ELSE "fallback"

\* (mutant) the gathered nodes handed on as they are
substitute_no_flatten(resolved) == resolved

\* _substitute_and_flatten_children_async, after its await: the gathered
\* nodes, flattened
substitute_and_flatten(resolved) == flatten_nodes(resolved)

\* (mutant) every attribute and the children are passed, declared or not
bound_kwargs_all(c, attrs) ==
    {kebab_to_snake(attrs[i].name) : i \in 1..Len(attrs)} \cup {"children"}

\* (mutant) no parameter is ever found missing
missing_params_none(c, kwargs) == {}

\* _invoke_component_async: the required parameters left unbound
missing_params(c, kwargs) == c.required \ kwargs

\* (mutant) required positional parameters are let through
requires_positional_ignored(c) == FALSE

\* callable_info.requires_positional
requires_positional(c) == c.reqpos

\* (mutant) the closing slot is never compared
mismatched_never(start, end) == FALSE

\* _resolve_t_node_async: the closing slot holds another value than the
\* opening slot
mismatched(start, end) == end # <<>> /\ end[1] # start[1]

\* _invoke_component_async: the keyword arguments bound from the attributes
\* and the children
bound_kwargs(c, attrs) ==
    {kebab_to_snake(attrs[i].name) : i \in {j \in 1..Len(attrs) :
        kebab_to_snake(attrs[j].name) \in c.named \/ c.kw}}
    \cup (IF "children" \in c.named \/ c.kw THEN {"children"} ELSE {})

RECURSIVE reassemble(_, _)

\* A variant that puts the literal parts first and the gathered results
\* after them.
reassemble_literals_first(parts, results) ==
    LET lits == {i \in 1..Len(parts) : parts[i].lit} IN
    [j \in 1..Cardinality(lits) |->
        Text(parts[CHOOSE i \in lits : Cardinality({m \in lits : m <= i}) = j].s)]
    \o results

\* _resolve_t_text_ref_async: literal parts and the gathered results of the
\* interpolated parts, each back at its index
reassemble(parts, results) ==
    IF parts = <<>> THEN <<>>
    ELSE IF Head(parts).lit
         THEN <<Text(Head(parts).s)>> \o reassemble(Tail(parts), results)
         ELSE <<Head(results)>> \o reassemble(Tail(parts), Tail(results))

interpolated(parts) ==
    LET idx == {i \in 1..Len(parts) : ~parts[i].lit} IN
    [j \in 1..Cardinality(idx) |->
        parts[CHOOSE i \in idx : Cardinality({m \in idx : m <= i}) = j].v[1]]

RECURSIVE Exec(_, _, _, _)

\* _substitute_and_flatten_children_async, up to its await: the children's
\* coroutines handed to asyncio.gather, the frame waiting for their results
gather_children(chs, frame, k, ctx, log) ==
    IF chs = <<>> THEN Exec(OpGathered(<<>>), <<frame>> \o k, ctx, log)
    ELSE Gathering([i \in 1..Len(chs) |-> OpResolve(chs[i])], <<frame>> \o k, ctx, log)

\* "await coroutine": the coroutine of async callable c starts; it suspends
\* when its body awaits something that is not ready
await_coroutine(c, kids, then, k, ctx, log) ==
    IF c.delay > 0 THEN Sleeping(OpBody(c, kids, then), k, ctx, log)
    ELSE Exec(OpBody(c, kids, then), k, ctx, log)

\* calling c: an async callable returns a coroutine, which the caller awaits
call_and_await(c, kids, then, k, ctx, log) ==
    IF c.async THEN await_coroutine(c, kids, then, k, ctx, log)
    ELSE Exec(OpBody(c, kids, then), k, ctx, log)

\* _node_from_value_async from its match statement on
match_value(v, k, ctx, log) ==
    LET case == match_case(v) IN
    CASE case = "str" -> Exec(OpRet(IF v.html THEN MarkupText(v.s) ELSE Text(v.s)), k, ctx, log)
      [] case = "Node" -> Exec(OpRet(v.node[1]), k, ctx, log)
      [] case = "Template" -> Exec(OpResolve(v.tpl[1]), k, ctx, log)
      [] case = "FalseNone" -> Exec(OpRet(Fragment(<<>>)), k, ctx, log)
      [] case = "Iterable" ->
            IF v.items = <<>>
            THEN Exec(OpGathered(<<>>), <<[F0 EXCEPT !.f = "iter"]>> \o k, ctx, log)
            ELSE Gathering([i \in 1..Len(v.items) |-> OpNorm(v.items[i])],
                           <<[F0 EXCEPT !.f = "iter"]>> \o k, ctx, log)
      [] case = "HasHTMLDunder" -> Exec(OpRet(MarkupText(v.h)), k, ctx, log)
      [] case = "callable" ->
            IF v.reqpos \/ v.required # {}
            THEN Exec(OpRaise(ArityError), k, ctx, log \cup {LogCall(v, {}, <<>>)})
            ELSE call_and_await(v, <<>>, "norm", k, ctx, log \cup {LogCall(v, {}, <<>>)})
      [] case = "fallback" -> Exec(OpRet(Text(v.s)), k, ctx, log)

\* _invoke_component_async
invoke_component(c, attrs, children, k, ctx, log) ==
    IF ~c.call
    THEN Exec(OpRaise("TypeError: Expected a callable for component invocation"),
              k, ctx, log)
    ELSE IF requires_positional(c)
    THEN Exec(OpRaise("TypeError: Component callables cannot have required positional arguments."),
              k, ctx, log)
    ELSE LET kwargs == bound_kwargs(c, attrs)
             missing == missing_params(c, kwargs)
             passed == IF "children" \in kwargs THEN children ELSE <<>>
         IN
         IF missing # {}
         THEN Exec(OpReraise(ExcNaming("TypeError: Missing required parameters for component",
                                       missing)),
                   k, ctx, log)
         ELSE call_and_await(c, passed, "norm", k, ctx,
                             log \cup {LogCall(c, kwargs, passed)})

\* the code after an "await asyncio.gather(...)" that returned ns
after_gather(frame, ns, k, ctx, log) ==
    CASE frame.f = "fragment" ->
            Exec(OpRet(Fragment(substitute_and_flatten(ns))), k, ctx, log)
      [] frame.f = "element" ->
            LET e == Element(frame.tag, frame.attrs, substitute_and_flatten(ns)) IN
            IF Element_post_init(e) = "" THEN Exec(OpRet(e), k, ctx, log)
            ELSE Exec(OpRaise(Element_post_init(e)), k, ctx, log)
      [] frame.f = "component" ->
            IF mismatched(frame.start, frame.end)
            THEN Exec(OpRaise("TypeError: Mismatched component start and end callables."),
                      k, ctx, log)
            ELSE invoke_component(frame.start[1], frame.attrs,
                                  substitute_and_flatten(ns), k, ctx, log)
      [] frame.f = "iter" -> Exec(OpRet(Fragment(ns)), k, ctx, log)
      [] frame.f = "textref" ->
            LET flat == flatten_nodes(reassemble(frame.parts, ns)) IN
            IF Len(flat) = 1 /\ flat[1].kind = "Text"
            THEN Exec(OpRet(flat[1]), k, ctx, log)
            ELSE Exec(OpRet(Fragment(flat)), k, ctx, log)

\* the body of a callable of the render, then what its caller does with the
\* value it returns
run_body(c, kids, then, k, ctx, log) ==
    LET continue(r, lg) ==
            IF then = "match" THEN Exec(OpMatch(r), k, ctx, lg)
            ELSE Exec(OpNorm(r), k, ctx, lg)
    IN
    CASE c.body = "ret" -> continue(c.res[1], log)
      [] c.body = "raise" -> Exec(OpRaise(c.err), k, ctx, log)
      [] c.body = "children" ->
            continue(IterValue([i \in 1..Len(kids) |-> NodeValue(kids[i])]), log)
      [] c.body = "readctx" ->
            LET saw == ContextVar_get(ctx, cdefault)
                lg == log \cup {LogGet(c, saw)}
            IN  IF saw = "LookupError" THEN Exec(OpRaise("LookupError"), k, ctx, lg)
                ELSE continue(StrValue(<<saw>>), lg)
      [] c.body = "provide" ->
            \* with Ctx.provide(pv): return await html_async(tpl)
            LET set == ContextVar_set(ctx, c.pv) IN
            Exec(OpResolve(c.tpl[1]),
                 <<[F0 EXCEPT !.f = "provide_exit", !.tok = set.token]>> \o k,
                 set.ctx, log)

\* A variant that compares the component's two slots before its children
\* are resolved.
checked_before_children_boundary(t) ==
    IF mismatched(t.start, t.end)
    THEN "TypeError: Mismatched component start and end callables." ELSE ""

\* _resolve_t_node_async, case TComponent, up to the children's await: the
\* slots are read and the attributes resolved, nothing is checked
checked_before_children(t) == ""

\* A variant that leaves the attributes unresolved when the children start.
resolved_attrs_deferred(t) == t.attrs

\* _resolve_t_node_async, "resolved_attrs = resolve_attrs(..)": a plain call
\* made before the children are awaited
resolved_attrs(t) ==
    IF t.tk = "TComponent" THEN resolve_t_attrs(t.attrs) ELSE resolve_attrs(t.attrs)

\* _resolve_t_node_async
resolve_t_node(t, k, ctx, log) ==
    CASE t.tk = "TText" ->
            IF is_literal(t.parts) THEN Exec(OpRet(Text(t.parts[1].s)), k, ctx, log)
            ELSE LET vs == interpolated(t.parts) IN
                 Gathering([i \in 1..Len(vs) |-> OpNorm(vs[i])],
                           <<[F0 EXCEPT !.f = "textref", !.parts = t.parts]>> \o k,
                           ctx, log)
      [] t.tk = "TComment" -> Exec(OpRet(Comment(format_template(t.parts))), k, ctx, log)
      [] t.tk = "TDocumentType" -> Exec(OpRet(DocumentType(t.text)), k, ctx, log)
      [] t.tk = "TFragment" ->
            gather_children(t.children, [F0 EXCEPT !.f = "fragment"], k, ctx, log)
      [] t.tk = "TElement" ->
            gather_children(t.children,
                [F0 EXCEPT !.f = "element", !.tag = t.tag, !.attrs = resolved_attrs(t)],
                k, ctx, log)
      [] t.tk = "TComponent" ->
            IF checked_before_children(t) # ""
            THEN Exec(OpRaise(checked_before_children(t)), k, ctx, log)
            ELSE gather_children(t.children,
                    [F0 EXCEPT !.f = "component", !.start = t.start, !.end = t.end,
                               !.attrs = resolved_attrs(t)],
                    k, ctx, log)
      [] OTHER -> Exec(OpRaise("ValueError: Unknown TNode type"), k, ctx, log)

\* a return or a raise reaching the frame below it: Context.provide's
\* "finally" resets the variable on both paths
unwind(op, k, ctx, log) ==
    IF k = <<>>
    THEN IF op.i = "ret" THEN Done(op.n[1], ctx, log) ELSE Failed(op.e, ctx, log)
    ELSE IF Head(k).f = "provide_exit"
         THEN Exec(op, Tail(k), ContextVar_reset(ctx, Head(k).tok), log)
         ELSE IF op.i = "raise" THEN Exec(op, Tail(k), ctx, log)
              ELSE Failed(Exc("internal: a frame that awaits no return"), ctx, log)

Exec(op, k, ctx, log) ==
    CASE op.i = "resolve" -> resolve_t_node(op.t[1], k, ctx, log)
      [] op.i = "norm" ->
            IF op.v[1].vk = "coro"
            THEN await_coroutine(op.v[1], <<>>, "match", k, ctx, log)
            ELSE match_value(op.v[1], k, ctx, log)
      [] op.i = "match" -> match_value(op.v[1], k, ctx, log)
      [] op.i = "body" -> run_body(op.v[1], op.ns, op.then, k, ctx, log)
      [] op.i = "gathered" -> after_gather(Head(k), op.ns, Tail(k), ctx, log)
      [] op.i \in {"ret", "raise"} -> unwind(op, k, ctx, log)

\* ------------------------------------------------------------------------
\* The event loop: tasks, the FIFO ready queue, asyncio.gather
\* ------------------------------------------------------------------------
RootId == <<>>

\* the task wrapping the i-th awaitable of task id's g-th gather
Kid(id, g, i) == Append(id, <<g, i>>)
Parent(id) == SubSeq(id, 1, Len(id) - 1)

\* contextvars.copy_context(): the values of the copy
copy_context(ctx) == ctx

\* (mutant) the new task runs in the context of the task that created it
task_context_shared(id, creator) == creator

\* asyncio.gather wraps each coroutine in a task, and a task runs in its
\* own copy of the context current at its creation: the context a new task
\* runs in, named by the task that owns it
task_context(id, creator) == id

NewTask(op, ctx, cid) ==
    [op |-> op, k |-> <<>>, st |-> "ready", ctx |-> copy_context(ctx), cid |-> cid,
     gen |-> 0, nk |-> 0, res |-> <<>>, err |-> NoErr, work |-> op]

\* the context task id runs in
CtxOf(ts, id) == ts[ts[id].cid].ctx

KidIds(ts, p) == [i \in 1..ts[p].nk |-> Kid(p, ts[p].gen, i)]

\* (mutant) the results in the order the tasks completed
gather_results_as_completed(ts, p, fin) ==
    LET kids == Range(KidIds(ts, p))
        rank(c) == Cardinality({d \in kids :
                      \E i, j \in 1..Len(fin) : fin[i] = d /\ fin[j] = c /\ i <= j})
    IN  [i \in 1..ts[p].nk |-> ts[CHOOSE c \in kids : rank(c) = i].res[1]]

\* what "await asyncio.gather(*tasks)" returns: the results in the order of
\* the awaitables
gather_results(ts, p, fin) == [i \in 1..ts[p].nk |-> ts[KidIds(ts, p)[i]].res[1]]

\* (mutant) the tasks still in flight are cancelled
on_child_error_cancel(ts, p) ==
    [t \in DOMAIN ts |->
        IF t \in Range(KidIds(ts, p)) /\ ts[t].st \notin {"done", "failed"}
        THEN [ts[t] EXCEPT !.st = "cancelled"] ELSE ts[t]]

\* asyncio.gather when one of its tasks raises: the others are left alone
on_child_error(ts, p) == ts

\* a finished task reports to the gather of its parent, if that still waits
Notify(ts, id, fin) ==
    IF id = RootId THEN [ts |-> ts, wake |-> <<>>]
    ELSE LET p == Parent(id) IN
         IF ts[p].st # "gather" \/ id \notin Range(KidIds(ts, p))
         THEN [ts |-> ts, wake |-> <<>>]
         ELSE IF ts[id].st = "failed"
         THEN [ts |-> [on_child_error(ts, p) EXCEPT
                          ![p].st = "ready", ![p].op = OpReraise(ts[id].err)],
               wake |-> <<p>>]
         ELSE IF \A i \in 1..ts[p].nk : ts[KidIds(ts, p)[i]].st = "done"
         THEN [ts |-> [ts EXCEPT ![p].st = "ready",
                                 ![p].op = OpGathered(gather_results(ts, p, fin))],
               wake |-> <<p>>]
         ELSE [ts |-> ts, wake |-> <<>>]

Running == Head(ready)
RunHead == Exec(tasks[Running].op, tasks[Running].k, CtxOf(tasks, Running), {})

\* the running task's coroutine returns
TaskReturns ==
    /\ ready # <<>>
    /\ LET Outcome == RunHead IN
       /\ Outcome.st = "done"
       /\ LET id == Running
              fin == Append(finished, id)
              ts == [tasks EXCEPT ![id].st = "done", ![id].res = Outcome.res,
                                  ![id].k = <<>>, ![id].op = OP0,
                                  ![tasks[id].cid].ctx = Outcome.ctx]
              nt == Notify(ts, id, fin)
          IN  /\ tasks' = nt.ts
              /\ ready' = Tail(ready) \o nt.wake
              /\ finished' = fin
              /\ obs' = obs \cup ReadsOf(Outcome.log)
              /\ calls' = calls \cup CallsOf(Outcome.log)
              /\ ncalls' = Counted(ncalls, Outcome.log)
       /\ UNCHANGED <<cdefault, callerCtx, nodeVars, ctxVars, cacheVars>>

\* the running task's coroutine raises
TaskRaises ==
    /\ ready # <<>>
    /\ LET Outcome == RunHead IN
       /\ Outcome.st = "failed"
       /\ LET id == Running
              fin == Append(finished, id)
              ts == [tasks EXCEPT ![id].st = "failed",
                                  ![id].err = IF Outcome.err.origin = <<>>
                                              THEN [Outcome.err EXCEPT !.origin = <<id>>]
                                              ELSE Outcome.err,
                                  ![id].k = <<>>, ![id].op = OP0,
                                  ![tasks[id].cid].ctx = Outcome.ctx]
              nt == Notify(ts, id, fin)
          IN  /\ tasks' = nt.ts
              /\ ready' = Tail(ready) \o nt.wake
              /\ finished' = fin
              /\ obs' = obs \cup ReadsOf(Outcome.log)
              /\ calls' = calls \cup CallsOf(Outcome.log)
              /\ ncalls' = Counted(ncalls, Outcome.log)
       /\ UNCHANGED <<cdefault, callerCtx, nodeVars, ctxVars, cacheVars>>

\* the running task suspends in an await on something not ready
TaskSuspends ==
    /\ ready # <<>>
    /\ LET Outcome == RunHead IN
       /\ Outcome.st = "sleeping"
       /\ tasks' = [tasks EXCEPT ![Running].st = "sleeping",
                                 ![Running].op = Outcome.op,
                                 ![Running].k = Outcome.k,
                                 ![tasks[Running].cid].ctx = Outcome.ctx]
       /\ ready' = Tail(ready)
       /\ obs' = obs \cup ReadsOf(Outcome.log)
       /\ calls' = calls \cup CallsOf(Outcome.log)
       /\ ncalls' = Counted(ncalls, Outcome.log)
       /\ UNCHANGED <<cdefault, finished, callerCtx, nodeVars, ctxVars, cacheVars>>

\* the running task awaits asyncio.gather over new tasks
TaskGathers ==
    /\ ready # <<>>
    /\ LET Outcome == RunHead IN
       /\ Outcome.st = "gather"
       /\ LET id == Running
              g == tasks[id].gen + 1
              n == Len(Outcome.spawn)
              kids == [i \in 1..n |-> Kid(id, g, i)]
              ts == [tasks EXCEPT ![id].st = "gather", ![id].op = OP0,
                                  ![id].k = Outcome.k, ![id].gen = g, ![id].nk = n,
                                  ![tasks[id].cid].ctx = Outcome.ctx]
          IN  /\ tasks' = [t \in DOMAIN ts \cup Range(kids) |->
                             IF t \in DOMAIN ts THEN ts[t]
                             ELSE NewTask(Outcome.spawn[CHOOSE i \in 1..n : kids[i] = t],
                                          Outcome.ctx,
                                          task_context(t, tasks[id].cid))]
              /\ ready' = Tail(ready) \o kids
       /\ obs' = obs \cup ReadsOf(Outcome.log)
       /\ calls' = calls \cup CallsOf(Outcome.log)
       /\ ncalls' = Counted(ncalls, Outcome.log)
       /\ UNCHANGED <<cdefault, finished, callerCtx, nodeVars, ctxVars, cacheVars>>

\* what a suspended task awaits becomes ready (a timer fires)
Wake(id) ==
    /\ tasks[id].st = "sleeping"
    /\ tasks' = [tasks EXCEPT ![id].st = "ready"]
    /\ ready' = Append(ready, id)
    /\ UNCHANGED <<obs, calls, ncalls, cdefault, finished, callerCtx, nodeVars, ctxVars, cacheVars>>

EngineNext ==
    \/ TaskReturns
    \/ TaskRaises
    \/ TaskSuspends
    \/ TaskGathers
    \/ \E id \in DOMAIN tasks : Wake(id)

\* ------------------------------------------------------------------------
\* The templates rendered: a root with up to MaxKids children, each child
\* one of a few placeholders
\* ------------------------------------------------------------------------
Fn(name) == [V0 EXCEPT !.call = TRUE, !.name = name, !.s = <<"<function>">>]
AsyncFn(name, delay) == [Fn(name) EXCEPT !.async = TRUE, !.delay = delay]
Tpl(root) == [V0 EXCEPT !.vk = "template", !.tpl = <<root>>, !.iter = TRUE,
                        !.s = <<"Template()">>]
LitText(sym) == TText(<<Lit(<<sym>>)>>)
Span(sym) == TElement("span", NoAttrs, <<LitText(sym)>>)
SelfClosing(c) == TComponent(c, <<>>, NoAttrs, <<>>)

\* a coroutine object: awaiting it suspends `delay` times, then gives res
Coro(name, delay, res) ==
    [V0 EXCEPT !.vk = "coro", !.name = name, !.async = TRUE, !.delay = delay,
               !.res = <<res>>, !.s = <<"<coroutine object>">>]
NoneValue == [V0 EXCEPT !.vk = "none", !.s = <<"None">>]
FalseValue == [V0 EXCEPT !.vk = "false", !.s = <<"False">>]

\* async def K1(): await asyncio.sleep(..); return "1"
K1 == [AsyncFn("K1", 1) EXCEPT !.res = <<StrValue(<<"1">>)>>]
\* def K2(): return t"<br />2"
K2 == [Fn("K2") EXCEPT !.res =
          <<Tpl(TFragment(<<TElement("br", NoAttrs, <<>>), LitText("2")>>))>>]
\* def K3(): return [quick(), ["B", None]]
K3 == [Fn("K3") EXCEPT !.res =
          <<IterValue(<<Coro("quick", 0, StrValue(<<"A">>)),
                        IterValue(<<StrValue(<<"B">>), NoneValue>>)>>)>>]
\* async def K4(): await ..; raise E4
K4 == [AsyncFn("K4", 1) EXCEPT !.body = "raise", !.err = "E4"]
\* async def K5(): await ..; return "5"
K5 == [AsyncFn("K5", 1) EXCEPT !.res = <<StrValue(<<"5">>)>>]
\* async def K6(): await ..; return "6"
K6 == [AsyncFn("K6", 1) EXCEPT !.res = <<StrValue(<<"6">>)>>]
\* def Wrapper(children): return children
Wrapper == [Fn("Wrapper") EXCEPT !.body = "children", !.named = {"children"}]

Atoms == {SelfClosing(c) : c \in {K1, K2, K3, K4}}
\* components that all suspend and return different text
SlowAtoms == {SelfClosing(c) : c \in {K1, K5, K6}}
\* failing subtrees, one of them nested
FailingAtoms == {SelfClosing(K4), TElement("p", NoAttrs, <<SelfClosing(K4)>>)}

KidSeqs(atoms, m) == UNION {[1..n -> atoms] : n \in 1..m}

Roots(m) ==
    {TElement("div", NoAttrs, ks) : ks \in KidSeqs(Atoms, m)}
    \cup {TFragment(ks) : ks \in KidSeqs(FailingAtoms, m)}
    \cup {TComponent(Wrapper, <<Wrapper>>, NoAttrs, ks) : ks \in KidSeqs(SlowAtoms, m)}
    \cup {SelfClosing(K3)}

RECURSIVE ReadsContext(_)
ReadsContext(t) ==
    \/ t.tk = "TComponent" /\ t.start[1].body \in {"readctx", "provide"}
    \/ \E i \in 1..Len(t.children) : ReadsContext(t.children[i])

EngineInit(roots) ==
    /\ \E root \in roots :
          /\ callerCtx \in IF ReadsContext(root) THEN {Unset, "R"} ELSE {Unset}
          /\ cdefault \in IF ReadsContext(root) THEN {"none", "D"} ELSE {"none"}
          /\ tasks = (RootId :> NewTask(OpResolve(root), callerCtx, RootId))
    /\ ready = <<RootId>>
    /\ obs = {}
    /\ calls = {}
    /\ ncalls = <<>>
    /\ finished = <<>>
    /\ NodeIdle
    /\ CtxIdle
    /\ CacheIdle

AsyncInit == EngineInit(Roots(MaxKids))

SpecAsync == AsyncInit /\ [][EngineNext]_vars

RootDone == tasks[RootId].st = "done"
RootFailed == tasks[RootId].st = "failed"
\* ------------------------------------------------------------------------
\* C1, C7, C8: sibling fan-out and fan-in
\* ------------------------------------------------------------------------
Position(seq, x) == CHOOSE i \in 1..Len(seq) : seq[i] = x
Before(a, b) ==
    /\ a \in Range(finished)
    /\ b \in Range(finished) => Position(finished, a) < Position(finished, b)

\* the results of the tasks of task t's g-th gather, in source order
KidResults(t, g, n) == [i \in 1..n |-> tasks[Kid(t, g, i)].res[1]]

ResolvesChildren(t) ==
    /\ tasks[t].work.i = "resolve"
    /\ tasks[t].work.t[1].tk \in {"TElement", "TFragment"}

NumChildren(t) == Len(tasks[t].work.t[1].children)

\* C1: whatever the order in which sibling tasks complete, the list a parent
\* gets back from its gather holds the siblings' results in source order, and
\* a resolved Element or Fragment has as children its placeholder children's
\* results in source order (Fragments among them replaced by their children).
ChildrenInSourceOrder ==
    \A t \in DOMAIN tasks :
        /\ (tasks[t].st = "ready" /\ tasks[t].op.i = "gathered")
             => tasks[t].op.ns = KidResults(t, tasks[t].gen, tasks[t].nk)
        /\ (tasks[t].st = "done" /\ ResolvesChildren(t))
             => Concat([i \in 1..Len(tasks[t].res[1].children) |->
                           Str(tasks[t].res[1].children[i]).out])
                = Concat([i \in 1..NumChildren(t) |->
                           Str(KidResults(t, 1, NumChildren(t))[i]).out])

\* three sibling components: the 2nd finished first, the 1st last, and the
\* parent was assembled
ChildrenInSourceOrderWitness ==
    /\ RootDone
    /\ tasks[RootId].work.t[1].tk = "TComponent"
    /\ Len(tasks[RootId].work.t[1].children) = 3
    /\ Before(Kid(RootId, 1, 2), Kid(RootId, 1, 3))
    /\ Before(Kid(RootId, 1, 3), Kid(RootId, 1, 1))
    /\ Str(tasks[RootId].res[1]).out = <<"1", "5", "6">>

\* the tasks of t's last gather that raised
FailedKids(t) ==
    {c \in Range(KidIds(tasks, t)) : tasks[c].st = "failed"}

\* C7: a task whose gather raised fails with the exception of the first of
\* the gathered sibling tasks to fail; a failed resolution has no result,
\* not even a partial one; and no task is ever cancelled: the siblings of a
\* failed task stay in flight.
FirstErrorWins ==
    \A t \in DOMAIN tasks :
        /\ tasks[t].st # "cancelled"
        /\ tasks[t].st = "failed" =>
              /\ tasks[t].res = <<>>
              /\ tasks[t].err.origin # <<t>> =>
                    \E c \in FailedKids(t) :
                        /\ tasks[t].err = tasks[c].err
                        /\ \A d \in FailedKids(t) \ {c} : Before(c, d)

\* the root failed with the error of the sibling that failed first while a
\* sibling was still in flight, and that sibling has since finished too
FirstErrorWinsWitness ==
    /\ RootFailed
    /\ Cardinality(FailedKids(RootId)) >= 2
    /\ \E c \in Range(KidIds(tasks, RootId)) :
          /\ tasks[c].st = "done"
          /\ Before(RootId, c)

\* a task that gave its children to _substitute_and_flatten_children_async
FlattensChildren(t) ==
    \/ ResolvesChildren(t)
    \/ /\ tasks[t].work.i = "resolve"
       /\ tasks[t].work.t[1].tk = "TComponent"
       /\ tasks[t].work.t[1].start[1].body = "children"

\* C8: what sibling components return (a sequence, a nested sequence, a
\* template with several roots) is spliced into the parent's children in
\* order, and no child of the parent is a Fragment.
NoNestedFragment ==
    \A t \in DOMAIN tasks :
        (tasks[t].st = "done" /\ FlattensChildren(t)) =>
            /\ \A i \in 1..Len(tasks[t].res[1].children) :
                  tasks[t].res[1].children[i].kind # "Fragment"
            /\ Concat([i \in 1..Len(tasks[t].res[1].children) |->
                          Str(tasks[t].res[1].children[i]).out])
               = Concat([i \in 1..NumChildren(t) |->
                          Str(KidResults(t, 1, NumChildren(t))[i]).out])

\* a component returned a nested sequence, another a two-root template, and
\* the parent has their items as its own children
NoNestedFragmentWitness ==
    /\ RootDone
    /\ tasks[RootId].work.t[1].tk = "TElement"
    /\ tasks[RootId].work.t[1].children = <<SelfClosing(K3), SelfClosing(K2)>>
    /\ tasks[Kid(RootId, 1, 1)].res[1].children[2].kind = "Fragment"
    /\ Len(tasks[RootId].res[1].children) = 4
\* ------------------------------------------------------------------------
\* context.py as a state machine: one slot, provide() scopes nested in one
\* call chain, bodies that return or raise
\* ------------------------------------------------------------------------
Last(seq) == seq[Len(seq)]
ButLast(seq) == SubSeq(seq, 1, Len(seq) - 1)

\* A variant of get that answers an unbound slot with the missing default.
Context_get_or_none(ctx, default) == IF ctx # Unset THEN ctx ELSE default

\* Context.get
Context_get(ctx, default) == ContextVar_get(ctx, default)

\* Context.provide, up to its yield: the context in the scope, and the token
Context_provide_enter(ctx, value) == ContextVar_set(ctx, value)

\* (mutant) the exit deletes the binding instead of restoring the old one
Context_provide_exit_unset(ctx, token) == Unset

\* Context.provide, its finally clause: the context after the scope
Context_provide_exit(ctx, token) == ContextVar_reset(ctx, token)

Seen(ctx) == [raw |-> ctx, visible |-> Context_get(ctx, sdefault)]

CtxInit ==
    /\ sdefault \in {"none", "D"}
    /\ cvar = Unset
    /\ scopes = <<>>
    /\ raising = FALSE
    /\ got = ""
    /\ prior = <<>>
    /\ exited = <<>>
    /\ provided = <<>>
    /\ gotIn = <<>>
    /\ NodeIdle
    /\ EngineIdle
    /\ CacheIdle

\* with Ctx.provide(v): the scope is entered
Provide(v) ==
    /\ ~raising
    /\ Len(scopes) < MaxDepth
    /\ LET set == Context_provide_enter(cvar, v) IN
       /\ cvar' = set.ctx
       /\ scopes' = Append(scopes, set.token)
    /\ prior' = Append(prior, Seen(cvar))
    /\ exited' = <<>>
    /\ provided' = Append(provided, v)
    /\ UNCHANGED <<sdefault, raising, got, gotIn, nodeVars, engineVars, cacheVars>>

\* the body of the innermost scope ends normally
ExitScope ==
    /\ ~raising
    /\ scopes # <<>>
    /\ cvar' = Context_provide_exit(cvar, Last(scopes))
    /\ scopes' = ButLast(scopes)
    /\ prior' = ButLast(prior)
    /\ exited' = <<[before |-> Last(prior), after |-> Seen(cvar')]>>
    /\ provided' = ButLast(provided)
    /\ UNCHANGED <<sdefault, raising, got, gotIn, nodeVars, engineVars, cacheVars>>

\* the body of the innermost scope raises
BodyRaises ==
    /\ ~raising
    /\ scopes # <<>>
    /\ raising' = TRUE
    /\ exited' = <<>>
    /\ UNCHANGED <<sdefault, cvar, scopes, got, prior, provided, gotIn, nodeVars, engineVars, cacheVars>>

\* the exception leaves the innermost scope through provide's finally
ExitScopeRaising ==
    /\ raising
    /\ scopes # <<>>
    /\ cvar' = Context_provide_exit(cvar, Last(scopes))
    /\ scopes' = ButLast(scopes)
    /\ prior' = ButLast(prior)
    /\ exited' = <<[before |-> Last(prior), after |-> Seen(cvar')]>>
    /\ provided' = ButLast(provided)
    /\ UNCHANGED <<sdefault, raising, got, gotIn, nodeVars, engineVars, cacheVars>>

\* the exception is caught by the code around the scope it just left
Catch ==
    /\ raising
    /\ exited # <<>>
    /\ raising' = FALSE
    /\ UNCHANGED <<sdefault, cvar, scopes, got, prior, exited, provided, gotIn, nodeVars, engineVars, cacheVars>>

\* Ctx.get()
Get ==
    /\ ~raising
    /\ got' = Context_get(cvar, sdefault)
    /\ gotIn' = <<provided>>
    /\ UNCHANGED <<sdefault, cvar, scopes, raising, prior, exited, provided, nodeVars, engineVars, cacheVars>>

CtxNext ==
    \/ \E v \in {"A", "B"} : Provide(v)
    \/ ExitScope
    \/ BodyRaises
    \/ ExitScopeRaising
    \/ Catch
    \/ Get

SpecContext == CtxInit /\ [][CtxNext]_vars

\* ------------------------------------------------------------------------
\* C4
\* ------------------------------------------------------------------------
\* C4: at every nesting depth, when a provide() scope is left, normally or by
\* an exception, the slot is exactly as it was just before the scope was
\* entered: the same binding (the enclosing scope's value, or none) and the
\* same visible value (that value, the default, or LookupError).
ProvideRestores == exited # <<>> => exited[1].after = exited[1].before

\* an inner scope was left by an exception while two scopes enclosed it, and
\* the enclosing scope's value is visible again
ProvideRestoresWitness ==
    /\ exited # <<>>
    /\ raising
    /\ Len(scopes) = 2
    /\ exited[1].before.visible = "A"
    /\ cvar = "A"
\* ------------------------------------------------------------------------
\* Renders whose components read and provide a Context slot
\* ------------------------------------------------------------------------
\* async def Reader(): await ..; return Ctx.get()
Reader == [AsyncFn("Reader", 1) EXCEPT !.body = "readctx", !.expect = "caller"]
\* async def Inner(): await ..; return Ctx.get()      (used under Provider)
Inner == [AsyncFn("Inner", 1) EXCEPT !.body = "readctx", !.expect = "P"]
\* async def Provider():
\*     with Ctx.provide("P"): return await html_async(t"<{Inner} />")
Provider == [AsyncFn("Provider", 0) EXCEPT !.body = "provide", !.pv = "P",
                !.tpl = <<TFragment(<<SelfClosing(Inner)>>)>>]

CtxAtoms == {SelfClosing(c) : c \in {Reader, Provider}}

CtxRoots(m) == {TElement("div", NoAttrs, ks) : ks \in KidSeqs(CtxAtoms, m)}

CtxRenderInit == EngineInit(CtxRoots(MaxKids))

SpecCtxRender == CtxRenderInit /\ [][EngineNext]_vars

\* what html_async's caller sees in the slot
CallerSees == ContextVar_get(callerCtx, cdefault)

\* ------------------------------------------------------------------------
\* C5
\* ------------------------------------------------------------------------
\* C5: every component of a concurrent render, reading the slot after a
\* suspension, sees the binding of the scope its task was spawned in: the
\* binding provided around the render (or the default, or LookupError) for
\* a child of the root, the provider's binding for a component rendered
\* inside a provider; no reader sees the binding a sibling provided.
BindingFollowsSpawnScope ==
    \A o \in obs : o.saw = IF o.expect = "caller" THEN CallerSees ELSE o.expect

\* a render under provide("R") ended in which a reader woke up after its
\* sibling provider had bound "P", and saw "R", while the provider's inner
\* component saw "P"
BindingFollowsSpawnScopeWitness ==
    /\ RootDone
    /\ callerCtx = "R"
    /\ [who |-> "Reader", saw |-> "R", expect |-> "caller"] \in obs
    /\ [who |-> "Inner", saw |-> "P", expect |-> "P"] \in obs
    /\ tasks[RootId].work.t[1].children[1].start[1] = Provider
    /\ tasks[RootId].work.t[1].children[2].start[1] = Reader
\* ------------------------------------------------------------------------
\* Renders of <ul>{v}..</ul>: the values an interpolation can hold
\* ------------------------------------------------------------------------
\* pending(): a coroutine object that suspends, then gives "p"
Pending == Coro("pending", 1, StrValue(<<"p">>))
\* "<" and ""
PlainStr == StrValue(<<"<">>)
EmptyStr == StrValue(<<>>)
\* Markup("<"): a str with __html__
MarkupStr == [StrValue(<<"<">>) EXCEPT !.html = TRUE, !.h = <<"<">>]
\* an Element
BrNode == NodeValue(Element("br", NoAttrs, <<>>))
\* t"<span>t</span>"
SpanTpl == Tpl(Span("t"))
\* 0
Zero == [V0 EXCEPT !.vk = "int", !.s = <<"0">>]
\* ["a", pending()]
ListValue == IterValue(<<StrValue(<<"a">>), Pending>>)
\* an object with __iter__ and __call__
IterCallable == [IterValue(<<StrValue(<<"i">>)>>) EXCEPT
                    !.call = TRUE, !.name = "IterCallable",
                    !.res = <<StrValue(<<"r">>)>>]
\* an object with __iter__ and __html__
IterMarkup == [IterValue(<<StrValue(<<"i">>)>>) EXCEPT !.html = TRUE, !.h = <<"<b>">>]
\* an object with __html__
MarkupObj == [V0 EXCEPT !.html = TRUE, !.h = <<"<b>">>, !.s = <<"<object>">>]
\* an object with __html__ and __call__
MarkupCallable == [Fn("MarkupCallable") EXCEPT !.html = TRUE, !.h = <<"<b>">>,
                      !.res = <<StrValue(<<"r">>)>>]
\* lambda: "r"
ZeroArgFn == [Fn("ZeroArgFn") EXCEPT !.res = <<StrValue(<<"r">>)>>]
\* async def f(): await ..; return t"<span>t</span>"
ZeroArgAsyncFn == [AsyncFn("ZeroArgAsyncFn", 1) EXCEPT !.res = <<SpanTpl>>]
\* lambda x: x
OneArgFn == [Fn("OneArgFn") EXCEPT !.reqpos = TRUE, !.res = <<StrValue(<<"r">>)>>]
\* object()
PlainObj == [V0 EXCEPT !.s = <<"<object>">>]
\* async def gen(): yield t"<li>1</li>"; await ..; yield t"<li>2</li>"
\* the object gen() gives has __aiter__ and __anext__ and nothing else
Li(sym) == TElement("li", NoAttrs, <<LitText(sym)>>)
AsyncGen == [V0 EXCEPT !.vk = "agen", !.name = "gen",
                       !.items = <<Tpl(Li("1")), Tpl(Li("2"))>>,
                       !.s = <<"<async_generator object gen>">>]

NormValues ==
    {Pending, PlainStr, EmptyStr, MarkupStr, BrNode, SpanTpl, FalseValue,
     NoneValue, Zero, ListValue, IterCallable, IterMarkup, MarkupObj,
     MarkupCallable, ZeroArgFn, ZeroArgAsyncFn, OneArgFn, PlainObj, AsyncGen}

\* <ul>{v1}{v2}..</ul>
Ul(vs) == TElement("ul", NoAttrs, <<TText([i \in 1..Len(vs) |-> Interp(vs[i])])>>)

NormRoots(m) == {Ul(vs) : vs \in UNION {[1..n -> NormValues] : n \in 1..m}}

NormInit == EngineInit(NormRoots(MaxParts))

SpecNorm == NormInit /\ [][EngineNext]_vars

\* the tasks that run _node_from_value_async
NormTasks == {id \in DOMAIN tasks : tasks[id].work.i = "norm"}

\* ------------------------------------------------------------------------
\* processor.py, the sequential engine: html(template) as a function
\* ------------------------------------------------------------------------
SOk(n) == [ok |-> TRUE, node |-> <<n>>, err |-> ""]
SErr(msg) == [ok |-> FALSE, node |-> <<>>, err |-> msg]
SAllOk(rs) == \A i \in 1..Len(rs) : rs[i].ok
SFirstErr(rs) == rs[CHOOSE i \in 1..Len(rs) : ~rs[i].ok /\ \A j \in 1..(i - 1) : rs[j].ok]
SNodes(rs) == [i \in 1..Len(rs) |-> rs[i].node[1]]

RECURSIVE normalize(_), resolve(_)

\* the body of a callable run without an event loop
call_sync(c, kids) ==
    CASE c.async -> SErr("usage: asynchronous result in sequential resolution")
      [] c.body = "ret" -> normalize(c.res[1])
      [] c.body = "raise" -> SErr(c.err)
      [] c.body = "children" ->
            normalize(IterValue([i \in 1..Len(kids) |-> NodeValue(kids[i])]))
      [] OTHER -> SErr("not modelled")

\* normalize(value), the dispatch of section 4.2
normalize(v) ==
    IF v.vk = "coro" THEN SErr("usage: pending value in sequential resolution")
    ELSE IF v.vk = "str" THEN SOk(IF v.html THEN MarkupText(v.s) ELSE Text(v.s))
    ELSE IF v.vk = "node" THEN SOk(v.node[1])
    ELSE IF v.vk = "template" THEN resolve(v.tpl[1])
    ELSE IF v.vk \in {"false", "none"} THEN SOk(Fragment(<<>>))
    ELSE IF v.iter
    THEN LET rs == [i \in 1..Len(v.items) |-> normalize(v.items[i])] IN
         IF SAllOk(rs) THEN SOk(Fragment(SNodes(rs))) ELSE SFirstErr(rs)
    ELSE IF v.html THEN SOk(MarkupText(v.h))
    ELSE IF v.call /\ ~v.reqpos /\ v.required = {} THEN call_sync(v, <<>>)
    ELSE SOk(Text(v.s))

\* the Invocation Protocol
invoke(c, attrs, children) ==
    IF ~c.call THEN SErr("TypeError: Expected a callable for component invocation")
    ELSE IF c.reqpos
    THEN SErr("TypeError: Component callables cannot have required positional arguments.")
    ELSE LET kwargs == bound_kwargs(c, attrs) IN
         IF c.required \ kwargs # {}
         THEN SErr("TypeError: Missing required parameters for component")
         ELSE call_sync(c, IF "children" \in kwargs THEN children ELSE <<>>)

\* resolve(placeholderNode, interpolations), section 4.4
resolve(t) ==
    LET kids == [i \in 1..Len(t.children) |-> resolve(t.children[i])] IN
    CASE t.tk = "TText" ->
            IF is_literal(t.parts) THEN SOk(Text(t.parts[1].s))
            ELSE LET vs == interpolated(t.parts)
                     rs == [i \in 1..Len(vs) |-> normalize(vs[i])]
                 IN  IF ~SAllOk(rs) THEN SFirstErr(rs)
                     ELSE LET flat == flatten_nodes(reassemble(t.parts, SNodes(rs))) IN
                          IF Len(flat) = 1 /\ flat[1].kind = "Text" THEN SOk(flat[1])
                          ELSE SOk(Fragment(flat))
      [] t.tk = "TComment" -> SOk(Comment(format_template(t.parts)))
      [] t.tk = "TDocumentType" -> SOk(DocumentType(t.text))
      [] t.tk = "TFragment" ->
            IF SAllOk(kids) THEN SOk(Fragment(flatten_nodes(SNodes(kids))))
            ELSE SFirstErr(kids)
      [] t.tk = "TElement" ->
            IF ~SAllOk(kids) THEN SFirstErr(kids)
            ELSE LET e == Element(t.tag, resolve_attrs(t.attrs), flatten_nodes(SNodes(kids))) IN
                 IF Element_post_init(e) = "" THEN SOk(e) ELSE SErr(Element_post_init(e))
      [] t.tk = "TComponent" ->
            IF ~SAllOk(kids) THEN SFirstErr(kids)
            ELSE IF t.end # <<>> /\ t.end[1] # t.start[1]
            THEN SErr("TypeError: Mismatched component start and end callables.")
            ELSE invoke(t.start[1], resolve_t_attrs(t.attrs), flatten_nodes(SNodes(kids)))
      [] OTHER -> SErr("ValueError: Unknown TNode type")

\* ------------------------------------------------------------------------
\* C3
\* ------------------------------------------------------------------------
RECURSIVE NoPendingV(_), NoPendingT(_)
\* no pending value and no async callable in a value / under a placeholder
NoPendingV(v) ==
    /\ v.vk # "coro"
    /\ ~v.async
    /\ \A i \in 1..Len(v.items) : NoPendingV(v.items[i])
    /\ \A i \in 1..Len(v.tpl) : NoPendingT(v.tpl[i])
    /\ \A i \in 1..Len(v.res) : NoPendingV(v.res[i])
NoPendingT(t) ==
    /\ \A i \in 1..Len(t.parts) : t.parts[i].lit \/ NoPendingV(t.parts[i].v[1])
    /\ \A i \in 1..Len(t.start) : NoPendingV(t.start[i])
    /\ \A i \in 1..Len(t.children) : NoPendingT(t.children[i])

RootTemplate == tasks[RootId].work.t[1]

\* C3: a template without pending values and async callables that the
\* sequential engine resolves is resolved by html_async too, to a tree that
\* serializes to the same text.
ConcurrentMatchesSequential ==
    (RootDone \/ RootFailed) /\ NoPendingT(RootTemplate) /\ resolve(RootTemplate).ok
        => /\ RootDone
           /\ Str(tasks[RootId].res[1]) = Str(resolve(RootTemplate).node[1])

\* ------------------------------------------------------------------------
\* C6
\* ------------------------------------------------------------------------
\* C6: an async generator interpolated as a child is drained, and what it
\* yields becomes the parent's children in yield order: <ul>{gen()}</ul>
\* renders as <ul><li>1</li><li>2</li></ul>.
AsyncGeneratorDrained ==
    RootDone /\ RootTemplate = Ul(<<AsyncGen>>)
        => Str(tasks[RootId].res[1]) =
              Ok(<<"<ul>", "<li>", "1", "</li>", "<li>", "2", "</li>", "</ul>">>)

\* ------------------------------------------------------------------------
\* C9
\* ------------------------------------------------------------------------
\* the cases of the dispatch, in the order claimed
Cases == <<"pending", "string", "Node", "template", "false/absent", "iterable",
           "safe-markup", "callable", "fallback">>

Matches(case, v) ==
    CASE case = "pending" -> v.vk = "coro"
      [] case = "string" -> v.vk = "str"
      [] case = "Node" -> v.vk = "node"
      [] case = "template" -> v.vk = "template"
      [] case = "false/absent" -> v.vk \in {"false", "none"}
      [] case = "iterable" -> v.iter
      [] case = "safe-markup" -> v.html
      [] case = "callable" -> v.call
      [] case = "fallback" -> TRUE

FirstCase(v) ==
    Cases[CHOOSE i \in 1..Len(Cases) :
             Matches(Cases[i], v) /\ \A j \in 1..(i - 1) : ~Matches(Cases[j], v)]

\* node n is what the case gives for value v
RECURSIVE Dispatched(_, _)
Dispatched(v, n) ==
    LET case == FirstCase(v) IN
    CASE case = "pending" -> Dispatched(v.res[1], n)
      [] case = "string" -> n.kind = "Text" /\ n.text = v.s
      [] case = "Node" -> n = v.node[1]
      [] case = "template" -> n.kind = "Element" /\ n.tag = v.tpl[1].tag
      [] case = "false/absent" -> n = Fragment(<<>>)
      [] case = "iterable" ->
            /\ n.kind = "Fragment"
            /\ Len(n.children) = Len(v.items)
            /\ \A i \in 1..Len(v.items) : Dispatched(v.items[i], n.children[i])
      [] case = "safe-markup" -> n = MarkupText(v.h)
      [] case = "callable" -> Dispatched(v.res[1], n)
      [] case = "fallback" -> n = Text(v.s)

\* C9: whatever _node_from_value_async returns for a value is what the first
\* matching case gives, the cases taken in the order pending value, string,
\* Node, template, false/absent, iterable, safe-markup object, callable,
\* fallback: an iterable callable is iterated, a string is never iterated,
\* and 0 and "" become Text, not the empty Fragment.  (Async generators,
\* the subject of C6, are left aside.)
DispatchOrder ==
    \A id \in NormTasks :
        tasks[id].st = "done" /\ tasks[id].work.v[1] # AsyncGen
            => Dispatched(tasks[id].work.v[1], tasks[id].res[1])

\* <ul>{IterCallable}{0}</ul> rendered: the first value was iterated, the
\* second became Text
DispatchOrderWitness ==
    /\ RootDone
    /\ RootTemplate = Ul(<<IterCallable, Zero>>)
    /\ tasks[Kid(Kid(RootId, 1, 1), 1, 1)].res[1] = Fragment(<<Text(<<"i">>)>>)
    /\ tasks[Kid(Kid(RootId, 1, 1), 1, 2)].res[1] = Text(<<"0">>)

\* ------------------------------------------------------------------------
\* C10
\* ------------------------------------------------------------------------
\* C10: _node_from_value_async never raises because of the type of the
\* value: a call of it ends with a Node for every value, a callable of any
\* arity included.
NormalizeTotal ==
    \A id \in NormTasks : tasks[id].st = "failed" => tasks[id].err.msg # ArityError
\* ------------------------------------------------------------------------
\* C11
\* ------------------------------------------------------------------------
\* "<tag attrs />"
SelfClosed(n) == <<"<", n.tag>> \o format_attributes(n.attrs) \o <<" />">>

\* C11: for every void tag, the constructor raises exactly when it is given
\* children; a constructed void element serializes as the single self-closed
\* tag, with no close tag, and its chunked form is that one chunk.
VoidElementsSelfClose ==
    (nargs.kind = "Element" /\ nargs.tag \in VOID_ELEMENTS) =>
        /\ nst = "rejected" <=> (nst # "new" /\ nargs.children # <<>>)
        /\ nst = "built" <=> (nst # "new" /\ nargs.children = <<>>)
        /\ strRes.done => strRes.ok /\ strRes.out = SelfClosed(nargs)
        /\ cst = "running" => chunks = <<SelfClosed(nargs)>>
        /\ cst = "exhausted" => chunks = <<SelfClosed(nargs)>>
        /\ cst # "raised"

\* <img id="&lt;" hidden /> was constructed and serialized both ways
VoidElementsSelfCloseWitness ==
    /\ nargs = Element("img", SomeAttrs, <<>>)
    /\ nst = "built"
    /\ strRes.done
    /\ cst = "exhausted"
    /\ chunks = << <<"<", "img", " ", "id", "=\"", "&lt;", "\"", " ", "hidden", " />">> >>
\* ------------------------------------------------------------------------
\* C12
\* ------------------------------------------------------------------------
RawTextElement(n) ==
    n.kind = "Element" /\ n.tag \in {"script", "style"} /\ n.children # <<>>

AllText(n) == \A i \in 1..Len(n.children) : n.children[i].kind = "Text"

\* the children's raw texts joined, then escaped once by the tag's escaper
BulkEscaped(n) ==
    LET raw == Concat([i \in 1..Len(n.children) |-> n.children[i].text]) IN
    IF n.tag = "script" THEN escape_html_script(raw) ELSE escape_html_style(raw)

OpenTag(n) == <<"<", n.tag>> \o format_attributes(n.attrs) \o <<">">>
CloseTag(n) == <<"</", n.tag, ">">>

\* C12: a script or style element with children fails to serialize, by str
\* and by render_chunks alike, when a child is not Text; when all are Text
\* the body is their raw texts joined and escaped once with the script or
\* style escaper, and render_chunks gives it as one chunk.
RawTextBodies ==
    (nst = "built" /\ RawTextElement(nargs)) =>
        IF AllText(nargs)
        THEN /\ strRes.done =>
                  /\ strRes.ok
                  /\ strRes.out = OpenTag(nargs) \o BulkEscaped(nargs) \o CloseTag(nargs)
             /\ cst # "raised"
             /\ cst = "exhausted" =>
                  chunks = <<OpenTag(nargs), BulkEscaped(nargs), CloseTag(nargs)>>
        ELSE /\ strRes.done => ~strRes.ok
             /\ cst # "exhausted"
             /\ Len(chunks) <= 1

\* <script>{"<"}{"</script>"}</script> serialized both ways: "<" is kept,
\* the closing tag inside the body is escaped the script way
RawTextBodiesWitness ==
    /\ nargs = Element("script", NoAttrs, <<Text(<<"<">>), Text(<<"</script>">>)>>)
    /\ strRes.done
    /\ strRes.out = <<"<", "script", ">", "<", "\\x3c/script>", "</", "script", ">">>
    /\ cst = "exhausted"
    /\ Len(chunks) = 3
\* ------------------------------------------------------------------------
\* Renders of one component, <{c} a=".." b="..">..</{end}>: callables of
\* several signatures, attributes they declare and do not declare
\* ------------------------------------------------------------------------
\* def Card(title=None, data_id=None, children=()): return children
Card == [Fn("Card") EXCEPT !.body = "children",
                           !.named = {"title", "data_id", "children"}]
\* def Bare(): return "ok"
Bare == [Fn("Bare") EXCEPT !.res = <<StrValue(<<"ok">>)>>]
\* def AnyKw(**kw): return "ok"
AnyKw == [Fn("AnyKw") EXCEPT !.kw = TRUE, !.res = <<StrValue(<<"ok">>)>>]
\* def Need(*, name): return "ok"
Need == [Fn("Need") EXCEPT !.named = {"name"}, !.required = {"name"},
                           !.res = <<StrValue(<<"ok">>)>>]
\* async def Need2(*, name, age, title=None): await ..; return "ok"
Need2 == [AsyncFn("Need2", 1) EXCEPT !.named = {"name", "age", "title"},
                                     !.required = {"name", "age"},
                                     !.res = <<StrValue(<<"ok">>)>>]
\* def Pos(x, /, title=None): return "ok"
Pos == [Fn("Pos") EXCEPT !.reqpos = TRUE, !.named = {"title"},
                         !.res = <<StrValue(<<"ok">>)>>]
\* "not a function"
NotCallable == [StrValue(<<"x">>) EXCEPT !.name = "NotCallable"]

Callees == {Card, Bare, AnyKw, Need, Need2, Pos, NotCallable}

Attr(name) == [name |-> name, has |-> TRUE, value |-> <<"v">>]
AttrNames == {"title", "data-id", "name", "age"}
AttrSeqs(m) == UNION {[1..n -> {Attr(a) : a \in AttrNames}] : n \in 0..m}

\* another callable than c for the closing slot
Other(c) == IF c = Bare THEN Card ELSE Bare

InvokeRoots(m) ==
    UNION {{TComponent(c, end, attrs, ch) :
               attrs \in AttrSeqs(m),
               end \in {<<>>, <<c>>, <<Other(c)>>},
               ch \in {<<>>, <<LitText("c")>>, <<SelfClosing(K1)>>}} :
           c \in Callees}

InvokeInit == EngineInit(InvokeRoots(MaxAttrs))

SpecInvoke == InvokeInit /\ [][EngineNext]_vars

\* the component of the render, the names its attributes bind, the calls
\* made of it
Callee == RootTemplate.start[1]
Given == {kebab_to_snake(RootTemplate.attrs[i].name) : i \in 1..Len(RootTemplate.attrs)}
CalleeCalls == {call \in calls : call.who = Callee.name}
RootEnded == RootDone \/ RootFailed
Accepted(c) == c.call /\ ~c.reqpos
Paired == RootTemplate.end = <<>> \/ RootTemplate.end[1] = Callee

\* ------------------------------------------------------------------------
\* C13
\* ------------------------------------------------------------------------
\* C13: the keyword arguments of a component call are exactly the attribute
\* names, dashes turned to underscores, that the callable declares (all of
\* them when it takes **kwargs), and "children" under the same condition,
\* holding the resolved children.
KeywordsBound ==
    \A call \in CalleeCalls :
        /\ \A n \in Given \cup {"children"} :
              n \in call.kwargs <=> (n \in Callee.named \/ Callee.kw)
        /\ call.kwargs \subseteq Given \cup {"children"}
        /\ call.kids = IF "children" \in Callee.named \/ Callee.kw
                       THEN flatten_nodes(KidResults(RootId, 1, NumChildren(RootId)))
                       ELSE <<>>

\* <{Card} data-id="v" name="v">c</{Card}>: Card was called with data_id and
\* children, not with name
KeywordsBoundWitness ==
    /\ RootDone
    /\ Callee = Card
    /\ Given = {"data_id", "name"}
    /\ [who |-> "Card", kwargs |-> {"data_id", "children"},
        kids |-> <<Text(<<"c">>)>>] \in calls

\* ------------------------------------------------------------------------
\* C14
\* ------------------------------------------------------------------------
MissingError == "TypeError: Missing required parameters for component"

\* the required parameters no attribute binds
Unbound == {r \in Callee.required : r \notin Given /\ r # "children"}

\* C14: a component with a required parameter that no attribute binds is
\* not called, and the render fails with an error that names every such
\* parameter.
MissingParametersNamed ==
    (Accepted(Callee) /\ Paired /\ Unbound # {}) =>
        /\ CalleeCalls = {}
        /\ RootEnded =>
              /\ RootFailed
              /\ tasks[RootId].err.msg = MissingError
              /\ tasks[RootId].err.names = Unbound

\* <{Need2} title="v" />: the error names both name and age
MissingParametersNamedWitness ==
    /\ RootFailed
    /\ Callee = Need2
    /\ Given = {"title"}
    /\ tasks[RootId].err.names = {"name", "age"}

\* ------------------------------------------------------------------------
\* C15
\* ------------------------------------------------------------------------
\* C15: a component target that is not callable, or that declares a required
\* positional parameter, is never called, and the render fails with the
\* error for it.
RejectedBeforeInvocation ==
    /\ ~Accepted(Callee) => CalleeCalls = {}
    /\ (~Accepted(Callee) /\ Paired /\ RootEnded) =>
          /\ RootFailed
          /\ tasks[RootId].err.msg =
                IF ~Callee.call
                THEN "TypeError: Expected a callable for component invocation"
                ELSE "TypeError: Component callables cannot have required positional arguments."

\* <{Pos} title="v"><{K1} /></{Pos}> failed after its child had rendered
RejectedBeforeInvocationWitness ==
    /\ RootFailed
    /\ Callee = Pos
    /\ Given = {"title"}
    /\ RootTemplate.children = <<SelfClosing(K1)>>
    /\ tasks[Kid(RootId, 1, 1)].st = "done"

\* ------------------------------------------------------------------------
\* C16
\* ------------------------------------------------------------------------
MismatchError == "TypeError: Mismatched component start and end callables."

Template(strings, values) == [strings |-> strings, values |-> values]

\* CachableTemplate.__init__
CachableTemplate(template, svg_context) ==
    [template |-> template, svg_context |-> svg_context]

\* A variant of __eq__ that compares the whole template, values included.
CachableTemplate_eq_with_values(self, other) ==
    /\ self.template = other.template
    /\ self.svg_context = other.svg_context

\* CachableTemplate.__eq__, between two keys
CachableTemplate_eq(self, other) ==
    /\ self.template.strings = other.template.strings
    /\ self.svg_context = other.svg_context

\* hash() of one literal segment: a small table, in which two segments collide
hash_str(s) ==
    CASE s = "<p>" -> 1
      [] s = "</p>" -> 2
      [] s = "<p></p>" -> 4
      [] OTHER -> 0

RECURSIVE hash_strings(_)
hash_strings(strings) ==
    IF strings = <<>> THEN 0
    ELSE (31 * hash_strings(ButLast(strings)) + hash_str(Last(strings))) % 4

\* CachableTemplate.__hash__: hash((strings, svg_context))
CachableTemplate_hash(self) ==
    (31 * hash_strings(self.template.strings)
        + (IF self.svg_context THEN 1 ELSE 0)) % 4

\* A parsed placeholder tree: what it was parsed from, and which run of the
\* parser made it (two runs make two distinct objects).
NoTree == [strings |-> <<>>, svg |-> FALSE, serial |-> 0]
parse(key, serial) ==
    [strings |-> key.template.strings, svg |-> key.svg_context, serial |-> serial]

\* dict lookup: the entries whose key has the same hash and compares equal
dict_find(d, key) ==
    {i \in 1..Len(d) :
        /\ CachableTemplate_hash(d[i].key) = CachableTemplate_hash(key)
        /\ CachableTemplate_eq(d[i].key, key)}

\* A store that replaces the entry already there and keeps the caller's tree.
parse_and_cache_store_overwrite(d, key, tree) ==
    LET hit == dict_find(d, key) IN
    IF hit = {} THEN [cache |-> Append(d, [key |-> key, tree |-> tree]), tree |-> tree]
    ELSE [cache |-> [d EXCEPT ![CHOOSE i \in hit : TRUE].tree = tree], tree |-> tree]

\* The end of a cache miss: the first tree stored for a key stays, and a
\* caller that parsed redundantly gets the stored one.
parse_and_cache_store(d, key, tree) ==
    LET hit == dict_find(d, key) IN
    IF hit = {} THEN [cache |-> Append(d, [key |-> key, tree |-> tree]), tree |-> tree]
    ELSE [cache |-> d, tree |-> d[CHOOSE i \in hit : TRUE].tree]

P1(v) == Template(<<"<p>", "</p>">>, <<v>>)
P0 == Template(<<"<p></p>">>, <<>>)

CacheKeys ==
    {CachableTemplate(P1("a"), FALSE), CachableTemplate(P1("b"), FALSE),
     CachableTemplate(P1("a"), TRUE), CachableTemplate(P0, FALSE)}

Render(key) == [key |-> key, pc |-> "start", tree |-> NoTree]

CacheInit ==
    /\ cache = <<>>
    /\ renders \in [1..MaxRenders -> {Render(k) : k \in CacheKeys}]
    /\ parsed = 0
    /\ DictIdle
    /\ NodeIdle
    /\ EngineIdle
    /\ CtxIdle

\* parse_and_cache, the lookup
Lookup(r) ==
    /\ renders[r].pc = "start"
    /\ LET hit == dict_find(cache, renders[r].key) IN
       renders' = [renders EXCEPT ![r] =
           IF hit = {} THEN [@ EXCEPT !.pc = "miss"]
           ELSE [@ EXCEPT !.pc = "resolved", !.tree = cache[CHOOSE i \in hit : TRUE].tree]]
    /\ UNCHANGED <<cache, parsed, dictVars, nodeVars, engineVars, ctxVars>>

\* parse_and_cache, the parser's run after a miss
Parse(r) ==
    /\ renders[r].pc = "miss"
    /\ parsed' = parsed + 1
    /\ renders' = [renders EXCEPT ![r] =
           [@ EXCEPT !.pc = "parsed", !.tree = parse(renders[r].key, parsed + 1)]]
    /\ UNCHANGED <<cache, dictVars, nodeVars, engineVars, ctxVars>>

\* parse_and_cache, the store after the parser's run
Store(r) ==
    /\ renders[r].pc = "parsed"
    /\ LET stored == parse_and_cache_store(cache, renders[r].key, renders[r].tree) IN
       /\ cache' = stored.cache
       /\ renders' = [renders EXCEPT ![r] =
              [@ EXCEPT !.pc = "resolved", !.tree = stored.tree]]
    /\ UNCHANGED <<parsed, dictVars, nodeVars, engineVars, ctxVars>>

CacheNext ==
    \/ \E r \in DOMAIN renders : Lookup(r)
    \/ \E r \in DOMAIN renders : Parse(r)
    \/ \E r \in DOMAIN renders : Store(r)

SpecCache == CacheInit /\ [][CacheNext]_vars

SameShape(a, b) ==
    /\ a.template.strings = b.template.strings
    /\ a.svg_context = b.svg_context

KeysInUse == {renders[r].key : r \in DOMAIN renders} \cup {cache[i].key : i \in DOMAIN cache}

Resolved == {r \in DOMAIN renders : renders[r].pc = "resolved"}

\* C17: two cache keys are equal, with equal hashes, exactly when their
\* templates have the same literal segments and the same svg flag, whatever
\* the interpolated values; renders whose keys are equal use one cached tree,
\* and keys differing in a segment or in the flag never share an entry.
KeyIsLiteralsAndFlag ==
    /\ \A a \in KeysInUse : \A b \in KeysInUse :
           /\ CachableTemplate_eq(a, b) <=> SameShape(a, b)
           /\ SameShape(a, b) => CachableTemplate_hash(a) = CachableTemplate_hash(b)
    /\ \A r \in Resolved : \A q \in Resolved :
           SameShape(renders[r].key, renders[q].key) <=> renders[r].tree = renders[q].tree

KeyIsLiteralsAndFlagWitness ==
    /\ renders[1].key = CachableTemplate(P1("a"), FALSE)
    /\ renders[2].key = CachableTemplate(P1("b"), FALSE)
    /\ renders[3].key = CachableTemplate(P1("a"), TRUE)
    /\ Resolved = {1, 2, 3}
    /\ renders[1].tree = renders[2].tree
    /\ renders[3].tree # renders[1].tree
    /\ parsed = 2

\* C18: however the first uses of a template shape interleave, the cache
\* holds at most one tree per shape, that tree is the parse of the shape, and
\* every render that has its tree holds the cached one; the parser may have
\* run more often than there are shapes.
CacheConverges ==
    /\ \A i \in DOMAIN cache : \A j \in DOMAIN cache :
           SameShape(cache[i].key, cache[j].key) => i = j
    /\ \A i \in DOMAIN cache :
           /\ cache[i].tree.serial \in 1..parsed
           /\ cache[i].tree = parse(cache[i].key, cache[i].tree.serial)
    /\ \A r \in Resolved :
           \E i \in DOMAIN cache :
               /\ SameShape(cache[i].key, renders[r].key)
               /\ cache[i].tree = renders[r].tree

CacheConvergesWitness ==
    /\ SameShape(renders[1].key, renders[2].key)
    /\ SameShape(renders[1].key, renders[3].key)
    /\ Resolved = {1, 2, 3}
    /\ parsed = 2
    /\ Len(cache) = 1
    /\ renders[1].tree = renders[2].tree
    /\ renders[1].tree = renders[3].tree

\* ------------------------------------------------------------------------
\* C19
\* ------------------------------------------------------------------------
\* What a get must answer, told from the provide() calls in force and the
\* slot's default alone.
Expected(open, default) ==
    IF open # <<>> THEN Last(open)
    ELSE IF default # "none" THEN default
    ELSE "LookupError"

\* C19: a Context.get() made outside every provide() scope raises LookupError
\* if the slot was created without a default and returns the default if it
\* was created with one; made inside provide() scopes it returns the value
\* given to the innermost one.
GetAnswers == gotIn # <<>> => got = Expected(gotIn[1], sdefault)

\* a slot without a default, asked after its scopes were left: LookupError
GetAnswersWitness ==
    /\ sdefault = "none"
    /\ gotIn = <<<<>>>>
    /\ got = "LookupError"
    /\ provided = <<>>
    /\ exited # <<>>

\* ------------------------------------------------------------------------
\* C20
\* ------------------------------------------------------------------------
RECURSIVE ChunkCount(_), ChunkCountAll(_)

\* the chunks a tree is to give: one per Text, Comment and DocumentType, one
\* for a void element, open tag + one body chunk + close tag for a script or
\* style element with children, open tag + the children's chunks + close
\* tag for any other element, and none for a Fragment itself
ChunkCount(n) ==
    CASE n.kind \in {"Text", "Comment", "DocumentType"} -> 1
      [] n.kind = "Fragment" -> ChunkCountAll(n.children)
      [] n.kind = "Element" ->
            IF n.tag \in VOID_ELEMENTS THEN 1
            ELSE IF n.tag \in {"script", "style"} /\ n.children # <<>> THEN 3
            ELSE 2 + ChunkCountAll(n.children)

ChunkCountAll(ns) ==
    IF ns = <<>> THEN 0 ELSE ChunkCount(Head(ns)) + ChunkCountAll(Tail(ns))

WholeVoid(n) == <<"<", n.tag>> \o format_attributes(n.attrs) \o <<" />">>

\* C20: a generator that ran to its end gave one chunk per open tag, Text,
\* close tag, Comment and DocumentType, one chunk for a whole void element
\* and one for the whole body of a script or style element; a leaf's chunk is
\* its serialization, an element's first and last chunks are its open and
\* close tags, and <ul><li>A</li><li>B</li></ul> gives the eight chunks
\* <ul>, <li>, A, </li>, <li>, B, </li>, </ul>.
ChunkPerPiece ==
    (nst = "built" /\ cst = "exhausted") =>
        /\ Len(chunks) = ChunkCount(nargs)
        /\ nargs.kind \in {"Text", "Comment", "DocumentType"} =>
               chunks = <<Str(nargs).out>>
        /\ (nargs.kind = "Element" /\ nargs.tag \in VOID_ELEMENTS) =>
               chunks = <<WholeVoid(nargs)>>
        /\ (nargs.kind = "Element" /\ nargs.tag \notin VOID_ELEMENTS) =>
               /\ chunks[1] = OpenTag(nargs)
               /\ chunks[Len(chunks)] = CloseTag(nargs)
        /\ nargs = Element("ul", NoAttrs, <<Element("li", NoAttrs, <<Text(<<"A">>)>>),
                                            Element("li", NoAttrs, <<Text(<<"B">>)>>)>>) =>
               chunks = << <<"<", "ul", ">">>, <<"<", "li", ">">>, <<"A">>, <<"</", "li", ">">>,
                           <<"<", "li", ">">>, <<"B">>, <<"</", "li", ">">>, <<"</", "ul", ">">> >>

ChunkPerPieceWitness ==
    /\ nargs.kind = "Element"
    /\ nargs.tag = "ul"
    /\ Len(nargs.children) = 2
    /\ nst = "built"
    /\ cst = "exhausted"
    /\ Len(chunks) = 8
    /\ chunks[3] = <<"A">>
    /\ chunks[6] = <<"B">>

\* ------------------------------------------------------------------------
\* C21
\* ------------------------------------------------------------------------
Ended(t) == tasks[t].st \in {"done", "failed"}

\* the tasks that task t spawned, in any of its gathers
Spawned(t) == {c \in DOMAIN tasks : c # RootId /\ Parent(c) = t}

\* C21: once a task's resolution has returned or raised, every task it
\* spawned for a child or for an interpolated part has ended too.
NoTaskOutlivesParent ==
    \A t \in DOMAIN tasks : Ended(t) => \A c \in Spawned(t) : Ended(c)

\* ------------------------------------------------------------------------
\* C22
\* ------------------------------------------------------------------------
HoldsFragment(n) ==
    /\ n.kind \in {"Fragment", "Element"}
    /\ \E i \in 1..Len(n.children) : n.children[i].kind = "Fragment"

\* C22: no Fragment or Element that a coroutine of the engine returns (a
\* resolved placeholder, the normalizer's node for a value, the result of
\* html_async itself) has a Fragment among its direct children.
FlatWhereverAssembled ==
    \A t \in DOMAIN tasks : tasks[t].st = "done" => ~HoldsFragment(tasks[t].res[1])

\* the same of the result of html_async alone
FlatRootResult == RootDone => ~HoldsFragment(tasks[RootId].res[1])

\* ------------------------------------------------------------------------
\* Renders of one text ref, <p>s1{v1}s2{v2}s3</p>: up to MaxParts
\* interpolations, a literal or nothing before, between and after them
\* ------------------------------------------------------------------------
RefValues == {Pending, PlainStr, NoneValue, ListValue, BrNode, K4}

\* the literal in slot i of a ref, if the slot is not empty
RefLit(i, on) == IF on THEN <<Lit(<<CASE i = 1 -> "s1" [] i = 2 -> "s2" [] i = 3 -> "s3"
                                      [] OTHER -> "s4">>)>>
                 ELSE <<>>

RECURSIVE RefParts(_, _, _)
RefParts(vs, on, i) ==
    IF i > Len(vs) THEN RefLit(i, on[i])
    ELSE RefLit(i, on[i]) \o <<Interp(vs[i])>> \o RefParts(vs, on, i + 1)

TextRefs(m) ==
    UNION {{RefParts(vs, on, 1) : vs \in [1..n -> RefValues], on \in [1..n + 1 -> BOOLEAN]}
           : n \in 0..m} \ {<<>>}

TextRefRoots(m) == {TElement("p", NoAttrs, <<TText(ps)>>) : ps \in TextRefs(m)}

TextRefInit == EngineInit(TextRefRoots(MaxParts))

SpecTextRef == TextRefInit /\ [][EngineNext]_vars

\* ------------------------------------------------------------------------
\* C23
\* ------------------------------------------------------------------------
\* the task resolving the text ref, and the ref's parts
RefTask == Kid(RootId, 1, 1)
RefOf == tasks[RootId].work.t[1].children[1].parts

\* the task normalizing the j-th interpolation of the ref
PartTask(j) == Kid(RefTask, 1, j)

\* how many interpolations stand among the first i parts
InterpsUpTo(ps, i) == Cardinality({m \in 1..i : ~ps[m].lit})

\* what part i of the ref contributes: its literal text, or the node its
\* own task returned
PartNode(ps, i) ==
    IF ps[i].lit THEN Text(ps[i].s) ELSE tasks[PartTask(InterpsUpTo(ps, i))].res[1]

\* the nodes a node stands for once Fragments are spliced away
RECURSIVE Leafs(_)
Leafs(n) ==
    IF n.kind = "Fragment"
    THEN Concat([i \in 1..Len(n.children) |-> Leafs(n.children[i])])
    ELSE <<n>>

\* C23: a pure literal resolves to its Text; any other ref resolves to the
\* nodes of its parts in source order (a literal's Text, an interpolation's
\* normalized node with Fragments spliced away), whatever order the parts'
\* tasks ended in: that node itself when they are exactly one Text, and
\* otherwise a Fragment holding them one by one, adjacent Texts unmerged.
TextRefResolved ==
    (RefTask \in DOMAIN tasks /\ tasks[RefTask].st = "done") =>
        LET ps == RefOf
            res == tasks[RefTask].res[1]
            want == Concat([i \in 1..Len(ps) |-> Leafs(PartNode(ps, i))])
        IN  IF Len(ps) = 1 /\ ps[1].lit
            THEN res = Text(ps[1].s) /\ tasks[RefTask].nk = 0
            ELSE IF Len(want) = 1 /\ want[1].kind = "Text"
            THEN res = want[1]
            ELSE res.kind = "Fragment" /\ res.children = want

\* s1{pending()}s2{"<"}: the second interpolation's task ended before the
\* first's, and the ref is four Texts in source order
TextRefResolvedWitness ==
    /\ RefTask \in DOMAIN tasks
    /\ tasks[RefTask].st = "done"
    /\ RefOf = <<Lit(<<"s1">>), Interp(Pending), Lit(<<"s2">>), Interp(PlainStr)>>
    /\ Before(PartTask(2), PartTask(1))
    /\ tasks[RefTask].res[1] =
           Fragment(<<Text(<<"s1">>), Text(<<"p">>), Text(<<"s2">>), Text(<<"<">>)>>)

\* ------------------------------------------------------------------------
\* html_stream_async: an async generator over one call of html_async.  The
\* node it iterates is kept in nargs, the chunks it has yielded in chunks.
\* ------------------------------------------------------------------------
\* A variant that takes what has been resolved so far: the root's children
\* that are done, before the root is.
stream_source_eager(ts) ==
    IF ts[RootId].st = "done" THEN <<ts[RootId].res[1]>>
    ELSE LET kids == KidIds(ts, RootId)
             done == {i \in 1..Len(kids) : ts[kids[i]].st = "done"}
         IN  IF done = {} THEN <<>>
             ELSE <<Fragment([j \in 1..Cardinality(done) |->
                      ts[kids[CHOOSE i \in done :
                            Cardinality({m \in done : m <= i}) = j]].res[1]])>>

\* "node = await html_async(template)": the node, once html_async returned
stream_source(ts) ==
    IF ts[RootId].st = "done" THEN <<ts[RootId].res[1]>> ELSE <<>>

\* the await returns and the generator holds the resolved tree
StreamResolved ==
    /\ nst = "idle"
    /\ stream_source(tasks) # <<>>
    /\ nargs' = stream_source(tasks)[1]
    /\ nst' = "built"
    /\ UNCHANGED <<strRes, chunks, cst, engineVars, ctxVars, cacheVars>>

\* the await raises: the error leaves the generator at its first pull
StreamFails ==
    /\ nst = "idle"
    /\ RootFailed
    /\ nst' = "raised"
    /\ cst' = "raised"
    /\ UNCHANGED <<nargs, strRes, chunks, engineVars, ctxVars, cacheVars>>

StreamNext ==
    \/ TaskReturns
    \/ TaskRaises
    \/ TaskSuspends
    \/ TaskGathers
    \/ \E id \in DOMAIN tasks : Wake(id)
    \/ StreamResolved
    \/ StreamFails
    \/ NextChunk

SpecStream == AsyncInit /\ [][StreamNext]_vars

\* ------------------------------------------------------------------------
\* C24
\* ------------------------------------------------------------------------
IsPrefix(a, b) == Len(a) <= Len(b) /\ a = SubSeq(b, 1, Len(a))

\* C24: the stream has yielded nothing until html_async has returned and
\* every task of the render has ended; a failed render yields no chunk
\* before its error; and what a successful one yields is, chunk by chunk,
\* render_chunks of the resolved tree, all of it once the stream is
\* exhausted.
StreamIsBuffered ==
    /\ chunks # <<>> => RootDone /\ \A t \in DOMAIN tasks : Ended(t)
    /\ RootFailed => chunks = <<>>
    /\ nst = "raised" => RootFailed /\ chunks = <<>>
    /\ RootDone =>
          /\ IsPrefix(chunks, render_chunks(tasks[RootId].res[1]).chunks)
          /\ cst = "exhausted" => chunks = render_chunks(tasks[RootId].res[1]).chunks

\* <div><{K1} /><{K2} /></div> streamed to its end
StreamIsBufferedWitness ==
    /\ tasks[RootId].work.t[1] =
           TElement("div", NoAttrs, <<SelfClosing(K1), SelfClosing(K2)>>)
    /\ RootDone
    /\ cst = "exhausted"
    /\ chunks = << <<"<", "div", ">">>, <<"1">>, <<"<", "br", " />">>, <<"2">>,
                   <<"</", "div", ">">> >>

\* ------------------------------------------------------------------------
\* nodes.py: what the holder of a constructed node can do to it.  Fragment
\* and Element are dataclasses with slots and without frozen=True, so their
\* fields take assignments after construction, and attrs is the dict that
\* was passed in; __post_init__ runs at construction only.
\* ------------------------------------------------------------------------
MutateInit ==
    /\ nargs \in ArgsUpTo(1)
    /\ nst = "new"
    /\ strRes = NoStr
    /\ chunks = <<>>
    /\ cst = "fresh"
    /\ EngineIdle
    /\ CtxIdle
    /\ CacheIdle

\* element.tag = tag
SetTag(tag) ==
    /\ nst = "built"
    /\ nargs.kind = "Element"
    /\ nargs' = [nargs EXCEPT !.tag = tag]
    /\ UNCHANGED <<nst, strRes, chunks, cst, engineVars, ctxVars, cacheVars>>

\* node.children = ch
SetChildren(ch) ==
    /\ nst = "built"
    /\ nargs.kind \in {"Element", "Fragment"}
    /\ nargs' = [nargs EXCEPT !.children = ch]
    /\ UNCHANGED <<nst, strRes, chunks, cst, engineVars, ctxVars, cacheVars>>

\* element.attrs[..] = .., del element.attrs[..]
SetAttrs(attrs) ==
    /\ nst = "built"
    /\ nargs.kind = "Element"
    /\ nargs' = [nargs EXCEPT !.attrs = attrs]
    /\ UNCHANGED <<nst, strRes, chunks, cst, engineVars, ctxVars, cacheVars>>

MutateNext ==
    \/ Construct
    \/ StrNode
    \/ NextChunk
    \/ \E tag \in {"", "br", "div"} : SetTag(tag)
    \/ \E ch \in {<<>>, <<Text(<<"x">>)>>} : SetChildren(ch)
    \/ \E attrs \in {NoAttrs, SomeAttrs} : SetAttrs(attrs)

SpecMutate == MutateInit /\ [][MutateNext]_vars

\* ------------------------------------------------------------------------
\* C25
\* ------------------------------------------------------------------------
\* C25: a constructed Element keeps, in every later state, what its
\* construction checked: a tag that is not empty, and no children if its
\* tag is void.
ConstructedStaysValid ==
    (nst = "built" /\ nargs.kind = "Element") =>
        /\ nargs.tag # ""
        /\ is_void(nargs) => nargs.children = <<>>

\* ------------------------------------------------------------------------
\* Renders of one element or component with interpolated attributes,
\* <div id=".." title={t} data-id={0}>..</div>, over children that suspend
\* ------------------------------------------------------------------------
\* async def SlowKw(**kw): await ..; return "ok"
SlowKw == [AsyncFn("SlowKw", 1) EXCEPT !.kw = TRUE, !.res = <<StrValue(<<"ok">>)>>]

TAttrs(m) ==
    UNION {[1..n -> {Attr("id"), TAttr("title", StrValue(<<"t">>)), TAttr("data-id", Zero)}]
           : n \in 0..m}

AttrKids ==
    {<<>>, <<LitText("c")>>, <<SelfClosing(K1)>>, <<SelfClosing(K1), SelfClosing(K4)>>}

AttrRoots(m) ==
    {TElement("div", attrs, ch) : attrs \in TAttrs(m), ch \in AttrKids}
    \cup {TComponent(c, <<>>, attrs, ch) :
             c \in {Card, SlowKw}, attrs \in TAttrs(m), ch \in AttrKids}

AttrsInit == EngineInit(AttrRoots(MaxAttrs))

SpecAttrs == AttrsInit /\ [][EngineNext]_vars

\* ------------------------------------------------------------------------
\* C26
\* ------------------------------------------------------------------------
\* the frames of a task that wait for the children of an element or component
NodeFrames(t) ==
    {i \in 1..Len(tasks[t].k) : tasks[t].k[i].f \in {"element", "component"}}

Unresolved(attrs) == \E i \in 1..Len(attrs) : "v" \in DOMAIN attrs[i]

\* the text an interpolated attribute value formats to
Formats(attrs, i, text) == attrs[i].has /\ attrs[i].value = text

\* C26: from the moment an element's or component's children are spawned,
\* its attributes are resolved, all of them; the task resolving it is never
\* suspended before that moment (it only ever suspends inside a callable's
\* body, after the children), and a resolved Element carries the resolved
\* attributes.
AttrsBeforeChildren ==
    \A t \in DOMAIN tasks :
        /\ \A i \in NodeFrames(t) : ~Unresolved(tasks[t].k[i].attrs)
        /\ tasks[t].st = "sleeping" => tasks[t].op.i = "body"
        /\ t = RootId =>
              /\ (tasks[t].st = "gather" /\ tasks[t].gen = 1) =>
                    /\ Len(tasks[t].k[1].attrs) = Len(RootTemplate.attrs)
                    /\ \A i \in 1..Len(RootTemplate.attrs) :
                          /\ tasks[t].k[1].attrs[i].name = RootTemplate.attrs[i].name
                          /\ ~Unresolved(<<RootTemplate.attrs[i]>>) =>
                                tasks[t].k[1].attrs[i] = RootTemplate.attrs[i]
                          /\ RootTemplate.attrs[i].name = "title" =>
                                Formats(tasks[t].k[1].attrs, i, <<"t">>)
                          /\ RootTemplate.attrs[i].name = "data-id" =>
                                Formats(tasks[t].k[1].attrs, i, <<"0">>)
              /\ (RootDone /\ RootTemplate.tk = "TElement") =>
                    ~Unresolved(tasks[t].res[1].attrs)

\* <div title={t} data-id={0}><{K1} /><{K4} /></div>: the children are in
\* flight, one of them suspended, and the root's frame holds title="t" and
\* data-id="0"
AttrsBeforeChildrenWitness ==
    /\ RootTemplate = TElement("div", <<TAttr("title", StrValue(<<"t">>)), TAttr("data-id", Zero)>>,
                               <<SelfClosing(K1), SelfClosing(K4)>>)
    /\ tasks[RootId].st = "gather"
    /\ tasks[Kid(RootId, 1, 1)].st = "sleeping"
    /\ tasks[RootId].k[1].attrs = <<[name |-> "title", has |-> TRUE, value |-> <<"t">>],
                                    [name |-> "data-id", has |-> TRUE, value |-> <<"0">>]>>

\* ------------------------------------------------------------------------
\* Renders of one component around children that are components themselves:
\* <{c}><{K4} /><{Wrapper}><{K1} /></{Wrapper}></{end}>
\* ------------------------------------------------------------------------
\* the most children the rendered component has
MaxChildren == 2

OrderAtoms ==
    {SelfClosing(K4), TComponent(Wrapper, <<>>, NoAttrs, <<SelfClosing(K1)>>)}

\* a callable for each outcome of the component's own checks
OrderCallees == {Card, Need, Need2, Pos, NotCallable}

OrderRoots(m) ==
    UNION {{TComponent(c, end, NoAttrs, ch) :
               end \in {<<>>, <<Other(c)>>},
               ch \in UNION {[1..n -> OrderAtoms] : n \in 0..m}} :
           c \in OrderCallees}

OrderInit == EngineInit(OrderRoots(MaxChildren))

SpecOrder == OrderInit /\ [][EngineNext]_vars

\* how many placeholders of the subtree t hold the callable called name
RECURSIVE Occurrences(_, _)
Occurrences(t, name) ==
    LET Sum[i \in 0..Len(t.children)] ==
            IF i = 0 THEN 0 ELSE Sum[i - 1] + Occurrences(t.children[i], name)
    IN  (IF t.tk = "TComponent" /\ t.start[1].name = name THEN 1 ELSE 0)
        + Sum[Len(t.children)]

\* how many times the callable called name was invoked
Invocations(name) == IF name \in DOMAIN ncalls THEN ncalls[name] ELSE 0

\* the tasks of the component's children, and all tasks below the component
ChildTasks == {Kid(RootId, 1, i) : i \in 1..Len(RootTemplate.children)}
Below == {t \in DOMAIN tasks : t # RootId /\ t[1][1] = 1}
Descendants == {K1.name, K4.name, Wrapper.name}

\* the component's own checks ran and one of them failed
OwnCheckFailed == RootFailed /\ tasks[RootId].err.origin = <<RootId>>

\* ------------------------------------------------------------------------
\* C27
\* ------------------------------------------------------------------------
\* C27: a component's own checks (boundary, callable, positional, missing
\* parameter) run, and its callable is invoked, only once every child is
\* resolved and every descendant component callable has been invoked; a
\* failed child leaves the component uninvoked and failing with the child's
\* error, not with an error of its own checks; the component's callable is
\* invoked at most once.
ChildrenBeforeComponent ==
    /\ (Invocations(Callee.name) > 0 \/ OwnCheckFailed) =>
          /\ ChildTasks \subseteq DOMAIN tasks
          /\ \A t \in Below : tasks[t].st = "done"
          /\ \A d \in Descendants :
                Invocations(d) = Occurrences(RootTemplate, d)
    /\ Invocations(Callee.name) <= 1
    /\ (\E k \in ChildTasks \cap DOMAIN tasks : tasks[k].st = "failed") =>
          /\ Invocations(Callee.name) = 0
          /\ ~RootDone
          /\ ~OwnCheckFailed

\* <{Need}><{Wrapper}><{K1} /></{Wrapper}><{Wrapper}><{K1} /></{Wrapper}></{Bare}>
\* failed in its own checks, after both Wrapper and both K1 had been invoked
ChildrenBeforeComponentWitness ==
    /\ Callee = Need
    /\ RootTemplate.end = <<Bare>>
    /\ Len(RootTemplate.children) = 2
    /\ OwnCheckFailed
    /\ tasks[RootId].err.msg = MismatchError
    /\ Invocations(Wrapper.name) = 2
    /\ Invocations(K1.name) = 2
    /\ Invocations(Need.name) = 0

\* ------------------------------------------------------------------------
\* utils.py: LastUpdatedOrderedDict
\* ------------------------------------------------------------------------
\* the most item assignments made on the dict
MaxSets == 4

DictKeys == {"a", "b", "c"}
DictValues == {"x", "y"}

\* key in d: the positions that hold the key
dict_index(d, key) == {i \in 1..Len(d) : d[i].key = key}

\* OrderedDict.__setitem__: a new key is linked at the end, an existing key
\* keeps its place and takes the value
OrderedDict_setitem(d, key, value) ==
    IF dict_index(d, key) = {}
    THEN Append(d, [key |-> key, value |-> value])
    ELSE [i \in 1..Len(d) |-> IF d[i].key = key THEN [d[i] EXCEPT !.value = value] ELSE d[i]]

\* OrderedDict.move_to_end(key)
move_to_end(d, key) ==
    LET at == CHOOSE i \in dict_index(d, key) : TRUE
    IN  Append(SubSeq(d, 1, at - 1) \o SubSeq(d, at + 1, Len(d)), d[at])

\* A variant that leaves an existing key where it was.
LastUpdatedOrderedDict_setitem_in_place(d, key, value) ==
    OrderedDict_setitem(d, key, value)

\* LastUpdatedOrderedDict.__setitem__
LastUpdatedOrderedDict_setitem(d, key, value) ==
    LET existing == dict_index(d, key) # {}
        stored == OrderedDict_setitem(d, key, value)
    IN  IF existing THEN move_to_end(stored, key) ELSE stored

DictInit ==
    /\ DictIdle
    /\ cache = <<>>
    /\ renders = <<>>
    /\ parsed = 0
    /\ NodeIdle
    /\ EngineIdle
    /\ CtxIdle

\* d[key] = value
SetItem(key, value) ==
    /\ Len(assigned) < MaxSets
    /\ lud' = LastUpdatedOrderedDict_setitem(lud, key, value)
    /\ assigned' = Append(assigned, [key |-> key, value |-> value])
    /\ UNCHANGED <<cache, renders, parsed, nodeVars, engineVars, ctxVars>>

DictNext == \E key \in DictKeys, value \in DictValues : SetItem(key, value)

SpecDict == DictInit /\ [][DictNext]_vars

\* the time of the most recent assignment of a key
LastAssigned(key) ==
    CHOOSE i \in 1..Len(assigned) :
        /\ assigned[i].key = key
        /\ \A j \in (i + 1)..Len(assigned) : assigned[j].key # key

\* ------------------------------------------------------------------------
\* C28
\* ------------------------------------------------------------------------
\* C28: after any sequence of item assignments the dict iterates over
\* exactly the keys assigned, each once, in the order of their most recent
\* assignment, oldest first, each with the value last assigned to it; so
\* the key assigned last, new or existing, is the last one.
OrderedByLastUpdate ==
    /\ {lud[i].key : i \in 1..Len(lud)} = {assigned[i].key : i \in 1..Len(assigned)}
    /\ \A i, j \in 1..Len(lud) :
          i < j => /\ lud[i].key # lud[j].key
                   /\ LastAssigned(lud[i].key) < LastAssigned(lud[j].key)
    /\ \A i \in 1..Len(lud) : lud[i].value = assigned[LastAssigned(lud[i].key)].value
    /\ assigned # <<>> => lud[Len(lud)] = assigned[Len(assigned)]

\* d["a"] = "x"; d["b"] = "x"; d["c"] = "x"; d["a"] = "y" left b, c, a
OrderedByLastUpdateWitness ==
    /\ assigned = <<[key |-> "a", value |-> "x"], [key |-> "b", value |-> "x"],
                    [key |-> "c", value |-> "x"], [key |-> "a", value |-> "y"]>>
    /\ lud = <<[key |-> "b", value |-> "x"], [key |-> "c", value |-> "x"],
               [key |-> "a", value |-> "y"]>>
====
